---- MODULE Spec2Model ----
(***************************************************************************)
(* ChittyDLVR: the receipt engine (ECDSA receipts, drand anchoring, the    *)
(* lazily created signing key pair), the delivery orchestrator and the     *)
(* Cloudflare worker, as state machines.                                   *)
(*                                                                         *)
(* Source versions modelled (the files hold an older and a newer copy of   *)
(* several classes; the newer copy is the one the package runs):           *)
(*   ReceiptEngine   src/unnamed/part_001   lines 244-581                  *)
(*   ChittyDLVR      src/src/core/receipt.js lines 179-466                 *)
(*   DeliveryChannel src/unnamed/part_003                                  *)
(*   worker          src/unnamed/part_006   lines 138-400                  *)
(***************************************************************************)
EXTENDS Integers, Sequences, FiniteSets, TLC

(***************************************************************************)
(* Bounds of the model.                                                    *)
(***************************************************************************)
\* Engines (ReceiptEngine objects) that can exist in one process.
MaxEngines == 2
\* create() calls that can be started, over all engines.
MaxCalls == 2
\* Orchestrator operations (send, ...) in one behaviour.
MaxOps == 3
\* Worker requests that can wait for their receipt at the same time.
MaxPending == 1
\* Recipients in one bulkSend call.
MaxRecipients == 3
\* Service cases initiated in one behaviour.
MaxServices == 2
\* recordAttempt calls, and recordAffidavit calls, for one serviceId.
MaxServiceCalls == 2

Engines == 1..MaxEngines
Calls == 1..MaxCalls

(***************************************************************************)
(* JavaScript null / undefined.                                            *)
(***************************************************************************)
Null == [null |-> TRUE]

(***************************************************************************)
(* Base64, as btoa and atob compute it.  A base64 string is a sequence of  *)
(* characters: 0..63 are the alphabet (by sextet value), B64Pad is '=',    *)
(* B64Space is ASCII whitespace, B64Bad is a character outside the         *)
(* alphabet.  A binary string is the sequence of its bytes                 *)
(* (String.fromCharCode / charCodeAt on 0..255).                           *)
(***************************************************************************)
B64Pad == 64
B64Space == 65
B64Bad == 66

RECURSIVE btoa(_)
btoa(bytes) ==
  IF Len(bytes) = 0 THEN << >>
  ELSE IF Len(bytes) = 1 THEN
    << bytes[1] \div 4, (bytes[1] % 4) * 16, B64Pad, B64Pad >>
  ELSE IF Len(bytes) = 2 THEN
    << bytes[1] \div 4,
       ((bytes[1] % 4) * 16) + (bytes[2] \div 16),
       (bytes[2] % 16) * 4,
       B64Pad >>
  ELSE
    << bytes[1] \div 4,
       ((bytes[1] % 4) * 16) + (bytes[2] \div 16),
       ((bytes[2] % 16) * 4) + (bytes[3] \div 64),
       bytes[3] % 64 >> \o btoa(SubSeq(bytes, 4, Len(bytes)))

\* bufferToBase64: the bytes of the buffer, one character each, then btoa.
bufferToBase64(buffer) == btoa(buffer)

StripWhitespace(s) == SelectSeq(s, LAMBDA c : c # B64Space)

\* atob: a length divisible by 4 loses one or two trailing '='.
StripPadding(s) ==
  IF Len(s) > 0 /\ Len(s) % 4 = 0 /\ s[Len(s)] = B64Pad
  THEN IF Len(s) > 1 /\ s[Len(s) - 1] = B64Pad
       THEN SubSeq(s, 1, Len(s) - 2)
       ELSE SubSeq(s, 1, Len(s) - 1)
  ELSE s

\* The bits left over after the last whole byte are discarded, whatever
\* their value.
RECURSIVE DecodeSextets(_)
DecodeSextets(d) ==
  IF Len(d) < 2 THEN << >>
  ELSE IF Len(d) = 2 THEN << (d[1] * 4) + (d[2] \div 16) >>
  ELSE IF Len(d) = 3 THEN
    << (d[1] * 4) + (d[2] \div 16), ((d[2] % 16) * 16) + (d[3] \div 4) >>
  ELSE
    << (d[1] * 4) + (d[2] \div 16),
       ((d[2] % 16) * 16) + (d[3] \div 4),
       ((d[3] % 4) * 64) + d[4] >> \o DecodeSextets(SubSeq(d, 5, Len(d)))

\* atob(s): [ok |-> FALSE] is the InvalidCharacterError it throws.
atob(s) ==
  LET d == StripPadding(StripWhitespace(s)) IN
  IF Len(d) % 4 = 1 \/ \E i \in 1..Len(d) : d[i] \notin 0..63
  THEN [ok |-> FALSE, bytes |-> << >>]
  ELSE [ok |-> TRUE, bytes |-> DecodeSextets(d)]

(***************************************************************************)
(* Strings are sequences of UTF-16 code units; TextEncoder.encode gives    *)
(* their UTF-8 bytes.  The model's strings hold no surrogate pair, so a    *)
(* surrogate code unit is a lone one and encodes as U+FFFD.                *)
(***************************************************************************)
Utf8(c) ==
  IF c < 128 THEN << c >>
  ELSE IF c < 2048 THEN << 192 + (c \div 64), 128 + (c % 64) >>
  ELSE IF c \in 55296..57343 THEN << 239, 191, 189 >>
  ELSE << 224 + (c \div 4096), 128 + ((c \div 64) % 64), 128 + (c % 64) >>

RECURSIVE TextEncode(_)
TextEncode(str) ==
  IF Len(str) = 0 THEN << >> ELSE Utf8(Head(str)) \o TextEncode(Tail(str))

(***************************************************************************)
(* crypto.subtle, ECDSA P-256 with SHA-256.  A key pair is its key         *)
(* material; generateKey draws fresh material, importKey of the configured *)
(* JWK always gives the material of that JWK.  A signature is the signing  *)
(* key's material followed by the digest of the data, and the digest is    *)
(* modelled collision-free (the data itself): a signature verifies under   *)
(* exactly one key and for exactly one byte string.                        *)
(***************************************************************************)
\* Material of the key held in SIGNING_KEY_JWK; generated keys start above.
JwkMaterial == 1
\* First byte of an exported SubjectPublicKeyInfo (DER SEQUENCE).
SpkiTag == 48

GenerateKey(n) == [mat |-> JwkMaterial + n]

Sign(privateKey, data) == << privateKey.mat >> \o data

VerifySignature(publicKey, sig, data) == sig = << publicKey.mat >> \o data

ExportSpki(publicKey) == << SpkiTag, publicKey.mat >>

\* importKey('spki', ...): [ok |-> FALSE] is the DataError it throws.
ImportSpki(bytes) ==
  IF Len(bytes) = 2 /\ bytes[1] = SpkiTag
  THEN [ok |-> TRUE, key |-> [mat |-> bytes[2]]]
  ELSE [ok |-> FALSE, key |-> Null]

\* What signingKeyJwk can hold: nothing, an importable P-256 private JWK,
\* or something importKey (or JSON.parse) rejects.
JwkConfigs == {"none", "valid", "invalid"}

\* getServiceKeyPair, lines 289-310: the two importKey calls on the JWK.
ImportJwkBroken(jwk) == [ok |-> TRUE, keyPair |-> GenerateKey(0)]
ImportJwk(jwk) ==
  IF jwk = "valid"
  THEN [ok |-> TRUE, keyPair |-> [mat |-> JwkMaterial]]
  ELSE [ok |-> FALSE, keyPair |-> Null]

(***************************************************************************)
(* The drand beacon's answer to GET .../public/latest.                     *)
(***************************************************************************)
DrandFields == {"round", "randomness", "signature"}
\* The round number a healthy beacon reports in the model.
DrandRound == 7

BeaconResponses ==
  { [kind |-> "networkError", has |-> {}, round |-> 0],
    [kind |-> "http503", has |-> {}, round |-> 0],
    [kind |-> "badJson", has |-> {}, round |-> 0],
    [kind |-> "http200", has |-> DrandFields, round |-> 0] }
  \cup { [kind |-> "http200", has |-> h, round |-> DrandRound] :
           h \in SUBSET DrandFields }

\* fetchDrandRound, lines 255-276.  Null is the null it returns; it has no
\* path that throws.
FetchDrandRoundUnchecked(resp) ==
  IF resp.kind = "http200"
  THEN [round |-> resp.round, randomness |-> "rand", signature |-> "sig"]
  ELSE Null
FetchDrandRound(resp) ==
  IF resp.kind = "networkError" THEN Null          \* fetch rejects: catch
  ELSE IF resp.kind = "http503" THEN Null          \* !response.ok
  ELSE IF resp.kind = "badJson" THEN Null          \* response.json rejects
  ELSE IF \/ "round" \notin resp.has \/ resp.round = 0
          \/ "randomness" \notin resp.has
          \/ "signature" \notin resp.has
       THEN Null
  ELSE [round |-> resp.round, randomness |-> "rand", signature |-> "sig"]

(***************************************************************************)
(* The signed payload.  JSON.stringify(payload) is modelled with one code  *)
(* unit per field value, in the order of the payload literal (lines        *)
(* 340-348): receiptId, deliveryId, signer, method, timestamp, drandRound, *)
(* drandRandomness.                                                        *)
(***************************************************************************)
\* Code units: 'A', U+FFFD (a character a signer name can contain), and a
\* lone surrogate (which only a tampered string holds).
CharA == 65
CharReplacement == 65533
CharLoneSurrogate == 55296
\* The signer names create is called with.
Signers == {CharA}

Stringify(payload) ==
  << 48 + payload.receiptId,
     68,
     payload.signer,
     100,
     84,
     IF payload.drandRound = Null THEN 110 ELSE 48 + payload.drandRound.n,
     IF payload.drandRandomness = Null THEN 110 ELSE 114 >>

\* drand?.round || null
OrNull(drand, field) ==
  IF drand = Null THEN Null
  ELSE IF field = "round" THEN [n |-> drand.round]
  ELSE [s |-> drand.randomness]

\* Keys every object literal inherits from Object.prototype: a lookup of
\* one of them in a table finds a function, which is truthy.
InheritedKeys == {"toString"}

\* Not a number: what a function is, and what arithmetic on one gives.
NaN == 0 - 1

\* scores[method] || default, lines 531-562.
calculateReceiptScore(method) ==
  CASE method = "digital" -> 85
    [] method = "witness" -> 90
    [] method = "physical" -> 75
    [] method = "notarized" -> 95
    [] method = "legalService" -> 95
    [] method \in InheritedKeys -> NaN
    [] OTHER -> 70

calculateTechnicalScore(method) ==
  CASE method = "digital" -> 90
    [] method = "witness" -> 80
    [] method = "physical" -> 65
    [] method = "notarized" -> 90
    [] method = "legalService" -> 85
    [] method \in InheritedKeys -> NaN
    [] OTHER -> 60

calculateArguableScore(method) ==
  CASE method = "digital" -> 80
    [] method = "witness" -> 95
    [] method = "physical" -> 80
    [] method = "notarized" -> 95
    [] method = "legalService" -> 95
    [] method \in InheritedKeys -> NaN
    [] OTHER -> 70

\* create, lines 340-425: the receipt built from the call's locals once the
\* key pair is at hand.  The payload is serialized once; the same string is
\* signed and embedded.
BuildReceiptReserialized(receiptId, signer, method, drand, kp) ==
  LET payload == [receiptId |-> receiptId, signer |-> signer,
                  drandRound |-> OrNull(drand, "round"),
                  drandRandomness |-> OrNull(drand, "randomness")]
      bare == [payload EXCEPT !.drandRound = Null, !.drandRandomness = Null]
  IN [receiptId |-> receiptId,
      signer |-> signer,
      method |-> method,
      signature |->
        [value |-> bufferToBase64(Sign(kp, TextEncode(Stringify(payload)))),
         publicKey |-> bufferToBase64(ExportSpki(kp)),
         signedPayload |-> Stringify(bare)],
      drand |-> drand,
      status |-> "VALID",
      legal |-> [score |-> calculateReceiptScore(method),
                 technical |-> calculateTechnicalScore(method),
                 arguable |-> calculateArguableScore(method)]]
BuildReceipt(receiptId, signer, method, drand, kp) ==
  LET payload == [receiptId |-> receiptId, signer |-> signer,
                  drandRound |-> OrNull(drand, "round"),
                  drandRandomness |-> OrNull(drand, "randomness")]
      serializedPayload == Stringify(payload)
      dataBuffer == TextEncode(serializedPayload)
  IN [receiptId |-> receiptId,
      signer |-> signer,
      method |-> method,
      signature |->
        [value |-> bufferToBase64(Sign(kp, dataBuffer)),
         publicKey |-> bufferToBase64(ExportSpki(kp)),
         signedPayload |-> serializedPayload],
      drand |-> drand,
      status |-> "VALID",
      legal |-> [score |-> calculateReceiptScore(method),
                 technical |-> calculateTechnicalScore(method),
                 arguable |-> calculateArguableScore(method)]]

\* getById, lines 436-438: store is the set of stored receipts, one per id.
getById(store, receiptId) ==
  IF \E r \in store : r.receiptId = receiptId
  THEN CHOOSE r \in store : r.receiptId = receiptId
  ELSE Null

(***************************************************************************)
(* verify, lines 444-496, on an engine whose fields are store and kp.      *)
(* receiptData = Null is the argument left out.  The result carries the    *)
(* engine's key pair after the call.                                       *)
(***************************************************************************)
VerifyResult(receiptId, verified, verificationError, error, kp) ==
  [receiptId |-> receiptId, verified |-> verified,
   verificationError |-> verificationError, error |-> error,
   threw |-> FALSE, keyPair |-> kp]

\* The superseded verify (lines 116-154): checks against the engine's own
\* key pair, creating one if there is none.
VerifyWithServiceKey(store, kp, receiptId, receiptData) ==
  IF receiptData = Null
  THEN VerifyResult(receiptId, FALSE, FALSE, "no data", kp)
  ELSE LET key == IF kp = Null THEN GenerateKey(0) ELSE kp
           sig == atob(receiptData.signature.value)
       IN IF ~sig.ok
          THEN VerifyResult(receiptId, FALSE, FALSE, "failed", key)
          ELSE VerifyResult(receiptId,
                 VerifySignature(key, sig.bytes,
                                 TextEncode(receiptData.signature.signedPayload)),
                 FALSE, "", key)
\* verify with its catch reporting plain failure, as the superseded verify
\* did: a processing exception comes back as verified = false, unflagged.
verifyUnflagged(store, kp, receiptId, receiptData) ==
  LET data == IF receiptData = Null THEN getById(store, receiptId)
              ELSE receiptData
  IN IF data = Null \/ data.signature = Null
     THEN VerifyResult(receiptId, FALSE, FALSE,
                       "Receipt not found or no signature data", kp)
     ELSE LET keyData == atob(data.signature.publicKey)
              importedKey == IF keyData.ok THEN ImportSpki(keyData.bytes)
                             ELSE [ok |-> FALSE, key |-> Null]
              sigBytes == atob(data.signature.value)
          IN VerifyResult(receiptId,
                 /\ keyData.ok /\ importedKey.ok /\ sigBytes.ok
                 /\ VerifySignature(importedKey.key, sigBytes.bytes,
                                    TextEncode(data.signature.signedPayload)),
                 FALSE, "", kp)

verify(store, kp, receiptId, receiptData) ==
  LET data == IF receiptData = Null THEN getById(store, receiptId)
              ELSE receiptData
  IN IF data = Null \/ data.signature = Null
     THEN VerifyResult(receiptId, FALSE, FALSE,
                       "Receipt not found or no signature data", kp)
     ELSE LET keyData == atob(data.signature.publicKey)
              importedKey == IF keyData.ok THEN ImportSpki(keyData.bytes)
                             ELSE [ok |-> FALSE, key |-> Null]
              dataBuffer == TextEncode(data.signature.signedPayload)
              sigBytes == atob(data.signature.value)
          IN IF ~keyData.ok \/ ~importedKey.ok \/ ~sigBytes.ok
             THEN VerifyResult(receiptId, FALSE, TRUE,
                               "Verification system error", kp)
             ELSE VerifyResult(receiptId,
                    VerifySignature(importedKey.key, sigBytes.bytes, dataBuffer),
                    FALSE, "", kp)

(***************************************************************************)
(* State.  Object e is a ChittyDLVR with the ReceiptEngine it owns         *)
(* (this.receipts): constructed[e] says whether it exists yet.             *)
(***************************************************************************)
VARIABLES
  constructed,     \* [Engines -> BOOLEAN]
  signingKeyJwk,   \* ChittyDLVR.signingKeyJwk, a member of JwkConfigs
  keyPair,         \* ReceiptEngine._keyPair: Null or a key pair
  receipts,        \* ReceiptEngine._receipts: the set of stored receipts
  keyInits,        \* how often generateKey / importKey gave e a key pair
  calls,           \* the create() calls: where each is, and its locals
  nextReceiptId,   \* generateReceiptId draws a fresh identifier
  nextKey,         \* generateKey draws fresh key material
  lastVerify,      \* the latest verify call: its arguments and its result
  apiKey,          \* ChittyDLVR.apiKey
  chittyId,        \* ChittyDLVR.chittyId
  initialized,     \* ChittyDLVR.initialized
  nextDeliveryId,  \* generateDeliveryId draws a fresh identifier
  dispatched,      \* how many deliveries went through channels.dispatch
  lastOp,          \* the latest orchestrator call: arguments and outcome
  env,             \* the worker's environment bindings
  pending,         \* worker requests waiting for their create call
  lastResponse,    \* the latest response the worker gave
  nextServiceId,   \* generateServiceId draws a fresh identifier
  services,        \* the ServiceCase initiate returned under each serviceId
  attemptsRecorded,  \* per serviceId: attempt records recordAttempt returned
  affidavitsFiled    \* per serviceId: affidavits recordAffidavit returned

receiptVars == << constructed, signingKeyJwk, keyPair, receipts, keyInits,
                  calls, nextReceiptId, nextKey, lastVerify >>
objectVars == << apiKey, chittyId, initialized >>
dlvrVars == << nextDeliveryId, dispatched, lastOp >>
workerVars == << env, pending, lastResponse >>
serviceVars == << nextServiceId, services, attemptsRecorded, affidavitsFiled >>

IdleCall ==
  [keyPair |-> Null, receiptId |-> 0, signer |-> 0, drand |-> Null,
   method |-> "", error |-> "", pc |-> "idle", engine |-> 0,
   beaconFailed |-> FALSE, result |-> Null]

NoVerify ==
  [verified |-> FALSE, verificationError |-> FALSE, error |-> "",
   threw |-> FALSE, supplied |-> FALSE, ofCreate |-> FALSE,
   tampered |-> FALSE, hadKey |-> FALSE, notFound |-> FALSE, called |-> FALSE,
   malformed |-> FALSE]

ReceiptInit ==
  /\ apiKey = [e \in Engines |-> Null]
  /\ chittyId = [e \in Engines |-> Null]
  /\ initialized = [e \in Engines |-> FALSE]
  /\ constructed = [e \in Engines |-> FALSE]
  /\ signingKeyJwk = [e \in Engines |-> "none"]
  /\ keyPair = [e \in Engines |-> Null]
  /\ receipts = [e \in Engines |-> {}]
  /\ keyInits = [e \in Engines |-> 0]
  /\ calls = [c \in Calls |-> IdleCall]
  /\ nextReceiptId = 1
  /\ nextKey = 1
  /\ lastVerify = NoVerify

\* new ChittyDLVR(config), src/src/core/receipt.js lines 180-192, with the
\* ReceiptEngine constructor, part_001 lines 245-250.  config.apiKey,
\* config.chittyId and config.signingKeyJwk are given after the
\* constructor's "|| null".  Objects are taken in order of their index.
NewObject(e, config) ==
  /\ ~constructed[e]
  /\ \A d \in Engines : d < e => constructed[d]
  /\ constructed' = [constructed EXCEPT ![e] = TRUE]
  /\ signingKeyJwk' = [signingKeyJwk EXCEPT ![e] = config.signingKeyJwk]
  /\ apiKey' = [apiKey EXCEPT ![e] = config.apiKey]
  /\ chittyId' = [chittyId EXCEPT ![e] = config.chittyId]
  /\ keyPair' = [keyPair EXCEPT ![e] = Null]
  /\ receipts' = [receipts EXCEPT ![e] = {}]

Construct(e, config) ==
  /\ NewObject(e, config)
  /\ initialized' = [initialized EXCEPT ![e] = FALSE]
  /\ UNCHANGED << keyInits, calls, nextReceiptId, nextKey, lastVerify,
                  dlvrVars, workerVars, serviceVars >>

\* create, lines 331-337: up to the await of fetchDrandRound.  Call slots
\* are taken in order.
BeginCreate(c, e, signer, method) ==
  /\ calls[c].pc = "idle"
  /\ \A d \in Calls : d < c => calls[d].pc # "idle"
  /\ calls' = [calls EXCEPT ![c] =
       [IdleCall EXCEPT !.pc = "fetch", !.engine = e,
                        !.receiptId = nextReceiptId, !.signer = signer,
                        !.method = method]]
  /\ nextReceiptId' = nextReceiptId + 1

CreateStart(c, e, signer, method) ==
  /\ constructed[e]
  /\ BeginCreate(c, e, signer, method)
  /\ UNCHANGED << constructed, signingKeyJwk, keyPair, receipts, keyInits,
                  nextKey, lastVerify, objectVars, dlvrVars, workerVars, serviceVars >>

\* The beacon failed in the sense of the contract: a network error, a
\* non-200 answer, or a body without round, randomness or signature.
BeaconFailed(resp) == resp.kind # "http200" \/ resp.has # DrandFields

\* getServiceKeyPair, lines 284-288 and 313-316: the part that runs before
\* its first await.
KeyStep(kp, jwk) ==
  IF kp # Null THEN "sign"
  ELSE IF jwk # "none" THEN "import"
  ELSE "generate"

\* create resumes with the beacon's answer (lines 337-354) and runs on into
\* getServiceKeyPair until that one awaits.
FetchResume(c, resp) ==
  LET e == calls[c].engine IN
  /\ calls[c].pc = "fetch"
  /\ calls' = [calls EXCEPT ![c] =
       [@ EXCEPT !.pc = KeyStep(keyPair[e], signingKeyJwk[e]),
                 !.drand = FetchDrandRound(resp),
                 !.beaconFailed = BeaconFailed(resp),
                 !.keyPair = keyPair[e]]]
  /\ UNCHANGED << constructed, signingKeyJwk, keyPair, receipts, keyInits,
                  nextReceiptId, nextKey, lastVerify >>
  /\ UNCHANGED << objectVars, dlvrVars, workerVars, serviceVars >>

\* The beacon never answers this request.  fetch is called with the URL
\* alone (line 257), no signal and no timer: its promise never settles and
\* nothing resumes the call.
BeaconSilent(c) ==
  /\ calls[c].pc = "fetch"
  /\ calls' = [calls EXCEPT ![c] = [@ EXCEPT !.pc = "hung"]]
  /\ UNCHANGED << constructed, signingKeyJwk, keyPair, receipts, keyInits,
                  nextReceiptId, nextKey, lastVerify >>
  /\ UNCHANGED << objectVars, dlvrVars, workerVars, serviceVars >>

\* getServiceKeyPair, lines 289-310: importKey settles.
ImportDone(c) ==
  LET e == calls[c].engine
      imported == ImportJwk(signingKeyJwk[e])
  IN
  /\ calls[c].pc = "import"
  /\ IF imported.ok
     THEN /\ keyPair' = [keyPair EXCEPT ![e] = imported.keyPair]
          /\ keyInits' = [keyInits EXCEPT ![e] = @ + 1]
          /\ calls' = [calls EXCEPT ![c] =
               [@ EXCEPT !.pc = "sign", !.keyPair = imported.keyPair]]
     ELSE /\ calls' = [calls EXCEPT ![c] =
               [@ EXCEPT !.pc = "failed",
                         !.error = "Signing key import failed"]]
          /\ UNCHANGED << keyPair, keyInits >>
  /\ UNCHANGED << constructed, signingKeyJwk, receipts, nextReceiptId,
                  nextKey, lastVerify >>
  /\ UNCHANGED << objectVars, dlvrVars, workerVars, serviceVars >>

\* getServiceKeyPair, lines 315-325: generateKey resolves.
GenerateDone(c) ==
  LET e == calls[c].engine
      generated == GenerateKey(nextKey)
  IN
  /\ calls[c].pc = "generate"
  /\ keyPair' = [keyPair EXCEPT ![e] = generated]
  /\ keyInits' = [keyInits EXCEPT ![e] = @ + 1]
  /\ nextKey' = nextKey + 1
  /\ calls' = [calls EXCEPT ![c] =
       [@ EXCEPT !.pc = "sign", !.keyPair = generated]]
  /\ UNCHANGED << constructed, signingKeyJwk, receipts, nextReceiptId,
                  lastVerify >>
  /\ UNCHANGED << objectVars, dlvrVars, workerVars, serviceVars >>

\* getServiceKeyPair, lines 321-324: generateKey rejects.
GenerateFail(c) ==
  /\ calls[c].pc = "generate"
  /\ calls' = [calls EXCEPT ![c] =
       [@ EXCEPT !.pc = "failed",
                 !.error = "Cryptographic key generation failed"]]
  /\ UNCHANGED << constructed, signingKeyJwk, keyPair, receipts, keyInits,
                  nextReceiptId, nextKey, lastVerify >>
  /\ UNCHANGED << objectVars, dlvrVars, workerVars, serviceVars >>

\* A store that holds the receipt stored last and nothing else.
MapSetOnly(store, receipt) == { receipt }

\* this._receipts.set(receiptId, receipt), line 427: the entry under this
\* identifier is replaced, every other entry stays.
MapSet(store, receipt) ==
  { r \in store : r.receiptId # receipt.receiptId } \cup { receipt }

\* create, lines 355-430: sign, export, build the receipt, store, return.
SignStore(c) ==
  LET e == calls[c].engine
      receipt == BuildReceipt(calls[c].receiptId, calls[c].signer,
                              calls[c].method, calls[c].drand,
                              calls[c].keyPair)
  IN
  /\ calls[c].pc = "sign"
  /\ receipts' = [receipts EXCEPT ![e] = MapSet(@, receipt)]
  /\ calls' = [calls EXCEPT ![c] = [@ EXCEPT !.pc = "done",
                                             !.result = receipt]]
  /\ UNCHANGED << constructed, signingKeyJwk, keyPair, keyInits,
                  nextReceiptId, nextKey, lastVerify >>
  /\ UNCHANGED << objectVars, dlvrVars, workerVars, serviceVars >>

(***************************************************************************)
(* What a caller can hand to verify: a receipt some create call returned,  *)
(* or a copy of one with signature.value or signedPayload changed.         *)
(***************************************************************************)
ReplaceAt(s, i, v) == [s EXCEPT ![i] = v]

\* Index of the last character of v that is not padding.
LastData(v) == CHOOSE i \in 1..Len(v) :
                 v[i] # B64Pad /\ \A j \in (i+1)..Len(v) : v[j] = B64Pad

TamperedValues(v) ==
  { ReplaceAt(v, 1, (v[1] + 1) % 64),
    ReplaceAt(v, LastData(v), v[LastData(v)] + 1),
    v \o << B64Space >>,
    StripPadding(v),
    ReplaceAt(v, 1, B64Bad) } \ { v }

\* Position of the signer in the serialized payload.
SignerPos == 3

TamperedPayloads(p) ==
  { ReplaceAt(p, SignerPos, CharA + 1),
    ReplaceAt(p, SignerPos, CharLoneSurrogate),
    SubSeq(p, 1, Len(p) - 1) } \ { p }

TamperedCopies(r) ==
  { [r EXCEPT !.signature.value = v] : v \in TamperedValues(r.signature.value) }
  \cup
  { [r EXCEPT !.signature.signedPayload = p] :
      p \in TamperedPayloads(r.signature.signedPayload) }

Returned == { calls[c].result : c \in { d \in Calls : calls[d].pc = "done" } }

ReceiptInputs == Returned \cup UNION { TamperedCopies(r) : r \in Returned }

\* The receipt create returned under this identifier, if any.
Original(receiptId) ==
  IF \E r \in Returned : r.receiptId = receiptId
  THEN CHOOSE r \in Returned : r.receiptId = receiptId
  ELSE Null

\* receiptData is a copy of a created receipt whose signature.value or
\* signedPayload is not the original's.
IsTampered(receiptData) ==
  /\ receiptData # Null
  /\ Original(receiptData.receiptId) # Null
  /\ LET o == Original(receiptData.receiptId) IN
       \/ receiptData.signature.value # o.signature.value
       \/ receiptData.signature.signedPayload # o.signature.signedPayload

\* Changes to the embedded public key: a character outside the base64
\* alphabet, bytes that are no SubjectPublicKeyInfo, and the well-formed key
\* of somebody else.
CorruptKeys(k) ==
  { ReplaceAt(k, 1, B64Bad),
    ReplaceAt(k, 1, (k[1] + 1) % 64),
    ReplaceAt(k, 3, (k[3] + 4) % 64) } \ { k }

CorruptKeyCopies(r) ==
  { [r EXCEPT !.signature.publicKey = k] : k \in CorruptKeys(r.signature.publicKey) }

\* receiptData makes atob or importKey throw: signature.value or publicKey
\* is not base64, or the key bytes are no P-256 SubjectPublicKeyInfo.
IsMalformed(receiptData) ==
  /\ receiptData # Null
  /\ \/ ~atob(receiptData.signature.value).ok
     \/ ~atob(receiptData.signature.publicKey).ok
     \/ ~ImportSpki(atob(receiptData.signature.publicKey).bytes).ok

\* verify(receiptId, receiptData) on engine e.  lastVerify keeps what the
\* call was given (by the questions asked about it) and what it returned.
Verify(e, receiptId, receiptData) ==
  LET res == verify(receipts[e], keyPair[e], receiptId, receiptData) IN
  /\ constructed[e]
  /\ lastVerify' =
       [supplied |-> receiptData # Null,
        ofCreate |-> \E c \in Calls : /\ calls[c].pc = "done"
                                      /\ calls[c].engine = e
                                      /\ calls[c].receiptId = receiptId,
        tampered |-> IsTampered(receiptData),
        hadKey |-> keyPair[e] # Null,
        verified |-> res.verified,
        verificationError |-> res.verificationError,
        threw |-> res.threw,
        notFound |-> /\ receiptData = Null
                     /\ getById(receipts[e], receiptId) = Null,
        error |-> res.error,
        called |-> TRUE,
        malformed |-> IsMalformed(receiptData)]
  /\ keyPair' = [keyPair EXCEPT ![e] = res.keyPair]
  /\ UNCHANGED << constructed, signingKeyJwk, receipts, keyInits, calls,
                  nextReceiptId, nextKey >>
  /\ UNCHANGED << objectVars, dlvrVars, workerVars, serviceVars >>

VerifyById(e) ==
  \E id \in 1..nextReceiptId : Verify(e, id, Null)

VerifyData(e) ==
  \E data \in ReceiptInputs : Verify(e, data.receiptId, data)

\* verify of a receipt as create returned it.
VerifyReturned(e) ==
  \E data \in Returned : Verify(e, data.receiptId, data)

\* verify of whatever a caller can hand in: a returned receipt, or a copy
\* with its signature, payload or public key changed.
VerifyAny(e) ==
  \E data \in ReceiptInputs \cup UNION { CorruptKeyCopies(r) : r \in Returned } :
    Verify(e, data.receiptId, data)

\* A create call is between its start and its return.
InFlight(c) == calls[c].pc \notin {"idle", "done", "failed"}

\* create called while no other create is running.
CreateAlone(c, e, signer, method) ==
  /\ \A d \in Calls : ~InFlight(d)
  /\ CreateStart(c, e, signer, method)

\* The beacon answers with a complete round.
HealthyBeacon ==
  [kind |-> "http200", has |-> DrandFields, round |-> DrandRound]

(***************************************************************************)
(* JavaScript values that reach the orchestrator from its callers.         *)
(***************************************************************************)
JsValue(type, str, num) == [str |-> str, type |-> type, num |-> num]
Undefined == JsValue("undefined", "", 0)
JsNull == JsValue("null", "", 0)
JsString(str) == JsValue("string", str, 0)
JsNumber(num) == JsValue("number", "", num)

\* !v is false
Truthy(v) ==
  CASE v.type = "string" -> v.str # ""
    [] v.type = "number" -> v.num # 0
    [] v.type = "object" -> TRUE
    [] OTHER -> FALSE

(***************************************************************************)
(* DeliveryChannel, src/unnamed/part_003.                                  *)
(***************************************************************************)
SupportedMethods ==
  {"email", "sms", "portal", "api", "physical", "inPerson", "legalService"}

\* getHandler, lines 26-38: handlers[method] || handlers.email.
getHandler(method) ==
  IF method \in SupportedMethods THEN method
  ELSE IF method \in InheritedKeys THEN "Object.prototype"
  ELSE "email"

\* What sets a channel's dispatch metadata apart (lines 43-168).
ChannelFeature(channel) ==
  CASE channel = "email" -> "links"
    [] channel = "sms" -> "deliveryReport"
    [] channel = "portal" -> "requiresAuth"
    [] channel = "api" -> "retries"
    [] channel = "physical" -> "returnReceiptRequested"
    [] channel = "inPerson" -> "witnessRequired"
    [] channel = "legalService" -> "affidavitRequired"
    [] OTHER -> ""

\* dispatch, lines 14-24.
dispatch(deliveryId, method) ==
  LET handler == getHandler(method) IN
  [channel |-> IF handler = "Object.prototype" THEN "" ELSE handler,
   dispatched |-> handler # "Object.prototype",
   deliveryId |-> deliveryId,
   feature |-> ChannelFeature(handler)]

(***************************************************************************)
(* ChittyDLVR, src/src/core/receipt.js lines 179-466.                      *)
(***************************************************************************)
\* Math.round(baseScore * multiplier), the multiplier in hundredths.
RoundHundredths(n) == (n + 50) \div 100

\* calculateDeliveryScore, lines 412-439.
calculateDeliveryScore(method, status) ==
  LET baseScore ==
        CASE method = "legalService" -> 95
          [] method = "inPerson" -> 90
          [] method = "portal" -> 85
          [] method = "email" -> 70
          [] method = "sms" -> 60
          [] method = "api" -> 65
          [] method = "physical" -> 75
          [] OTHER -> 50
      multiplier ==
        CASE status = "PENDING" -> 0
          [] status = "SENT" -> 30
          [] status = "DELIVERED" -> 60
          [] status = "OPENED" -> 75
          [] status = "ACKNOWLEDGED" -> 85
          [] status = "RECEIPTED" -> 100
          [] status = "FAILED" -> 0
          [] status = "BOUNCED" -> 0
          [] status = "REFUSED" -> 50
          [] OTHER -> 0
  IN IF method \in InheritedKeys \/ status \in InheritedKeys THEN NaN
     ELSE RoundHundredths(baseScore * multiplier)

NoOutcome ==
  [value |-> Null, error |-> "", threw |-> FALSE, dispatched |-> FALSE,
   idGenerated |-> FALSE]

Throw(message) == [NoOutcome EXCEPT !.threw = TRUE, !.error = message]

\* The method a send runs with: the destructuring default applies to
\* undefined only.
MethodOf(options) ==
  IF options.method.type = "undefined" THEN "email" ELSE options.method.str

\* The Delivery literal, lines 222-265.
StatusHistoryPendingOnly ==
  << [status |-> "PENDING", actor |-> "system"] >>
StatusHistory ==
  << [status |-> "PENDING", actor |-> "system"],
     [status |-> "SENT", actor |-> "system"] >>

Delivery(from, options, deliveryId) ==
  [deliveryId |-> deliveryId,
   mintId |-> options.mintId,
   from |-> from,
   to |-> options.to,
   method |-> MethodOf(options),
   dispatch |-> dispatch(deliveryId, MethodOf(options)),
   status |-> "SENT",
   statusHistory |-> StatusHistory,
   proof |-> [pillar |-> "delivery",
              score |-> calculateDeliveryScore(MethodOf(options), "SENT")]]

\* send, lines 211-268, on an orchestrator whose chittyId is from (after
\* "|| 'anonymous'"); deliveryId is what generateDeliveryId would draw.
sendValidatingLate(from, options, deliveryId) ==
  IF ~Truthy(options.mintId) \/ options.mintId.type # "string"
  THEN [Throw("mintId is required and must be a string")
          EXCEPT !.idGenerated = TRUE, !.dispatched = TRUE]
  ELSE [NoOutcome EXCEPT !.value = Delivery(from, options, deliveryId),
                         !.idGenerated = TRUE, !.dispatched = TRUE]
send(from, options, deliveryId) ==
  IF ~Truthy(options.mintId) \/ options.mintId.type # "string"
  THEN Throw("mintId is required and must be a string")
  ELSE [NoOutcome EXCEPT !.value = Delivery(from, options, deliveryId),
                         !.idGenerated = TRUE, !.dispatched = TRUE]

(***************************************************************************)
(* bulkSend, src/src/core/receipt.js lines 369-408.  A recipient is an     *)
(* object with to, method and, possibly, a mintId of its own, which the    *)
(* spread { mintId, ...recipient } lets override the batch's mintId.       *)
(***************************************************************************)
\* The property is not there.
Absent == JsValue("absent", "", 0)
JsArray(items) == [type |-> "array", items |-> items]

\* { mintId, ...recipient }, line 384-387.
RecipientOptions(mintId, recipient) ==
  [mintId |-> IF recipient.mintId = Absent THEN mintId ELSE recipient.mintId,
   to |-> recipient.to,
   method |-> recipient.method]

\* The entry pushed in the catch, lines 389-396.
FailedEntry(recipient, message) ==
  [deliveryId |-> Null, to |-> recipient.to, method |-> recipient.method,
   status |-> "FAILED", error |-> message]

\* The loop without an entry for a recipient whose send throws.
RECURSIVE BulkResultsSentOnly(_, _, _, _)
BulkResultsSentOnly(from, mintId, recipients, deliveryId) ==
  IF recipients = << >> THEN << >>
  ELSE LET r == send(from, RecipientOptions(mintId, Head(recipients)),
                     deliveryId)
       IN IF r.threw
          THEN BulkResultsSentOnly(from, mintId, Tail(recipients), deliveryId)
          ELSE << r.value >>
               \o BulkResultsSentOnly(from, mintId, Tail(recipients),
                                      deliveryId + 1)

\* The loop of lines 381-397: results for recipients, the next send drawing
\* deliveryId.
RECURSIVE BulkResults(_, _, _, _)
BulkResults(from, mintId, recipients, deliveryId) ==
  IF recipients = << >> THEN << >>
  ELSE LET r == send(from, RecipientOptions(mintId, Head(recipients)),
                     deliveryId)
       IN IF r.threw
          THEN << FailedEntry(Head(recipients), r.error) >>
               \o BulkResults(from, mintId, Tail(recipients), deliveryId)
          ELSE << r.value >>
               \o BulkResults(from, mintId, Tail(recipients), deliveryId + 1)

\* results.filter(r => r.status === status).length
RECURSIVE CountStatus(_, _)
CountStatus(results, status) ==
  IF results = << >> THEN 0
  ELSE (IF Head(results).status = status THEN 1 ELSE 0)
       + CountStatus(Tail(results), status)

\* The object bulkSend returns, lines 399-407.
BulkResult(mintId, recipients, results) ==
  [mintId |-> mintId,
   totalRecipients |-> Len(recipients),
   sent |-> CountStatus(results, "SENT"),
   failed |-> CountStatus(results, "FAILED"),
   deliveries |-> results]

bulkSendUnchecked(from, options, deliveryId) ==
  IF ~Truthy(options.mintId) \/ options.mintId.type # "string"
  THEN Throw("mintId is required and must be a string")
  ELSE LET items == IF options.recipients.type = "array"
                    THEN options.recipients.items ELSE << >>
           results == BulkResults(from, options.mintId, items, deliveryId)
       IN [NoOutcome EXCEPT
             !.value = BulkResult(options.mintId, items, results),
             !.idGenerated = CountStatus(results, "SENT") > 0,
             !.dispatched = CountStatus(results, "SENT") > 0]
bulkSend(from, options, deliveryId) ==
  IF ~Truthy(options.mintId) \/ options.mintId.type # "string"
  THEN Throw("mintId is required and must be a string")
  ELSE IF \/ options.recipients.type # "array"
          \/ Len(options.recipients.items) = 0
  THEN Throw("recipients must be a non-empty array")
  ELSE LET results == BulkResults(from, options.mintId,
                                  options.recipients.items, deliveryId)
       IN [NoOutcome EXCEPT
             !.value = BulkResult(options.mintId, options.recipients.items,
                                  results),
             !.idGenerated = CountStatus(results, "SENT") > 0,
             !.dispatched = CountStatus(results, "SENT") > 0]

\* validateApiKey, lines 457-463.
validateApiKey(key) ==
  IF ~Truthy(key) THEN [NoOutcome EXCEPT !.value = [bool |-> FALSE]]
  ELSE IF key.type # "string" \/ Len(key.str) < 16
  THEN Throw("Invalid API key format")
  ELSE [NoOutcome EXCEPT !.value = [bool |-> TRUE]]

\* initialize, lines 197-206: whether it throws, and initialized afterwards.
initializeAgain(isInitialized, key) ==
  IF Truthy(key) /\ validateApiKey(key).threw
  THEN [threw |-> TRUE, initialized |-> FALSE, validated |-> TRUE]
  ELSE [threw |-> FALSE, initialized |-> TRUE, validated |-> Truthy(key)]
initializeMarksFirst(isInitialized, key) ==
  IF isInitialized THEN [threw |-> FALSE, initialized |-> TRUE, validated |-> FALSE]
  ELSE IF Truthy(key) /\ validateApiKey(key).threw
  THEN [threw |-> TRUE, initialized |-> TRUE, validated |-> TRUE]
  ELSE [threw |-> FALSE, initialized |-> TRUE, validated |-> Truthy(key)]
initialize(isInitialized, key) ==
  IF isInitialized THEN [threw |-> FALSE, initialized |-> TRUE, validated |-> FALSE]
  ELSE IF Truthy(key) /\ validateApiKey(key).threw
  THEN [threw |-> TRUE, initialized |-> FALSE, validated |-> TRUE]
  ELSE [threw |-> FALSE, initialized |-> TRUE, validated |-> Truthy(key)]

\* What callers pass as mintId and as method.
MintIds ==
  { Undefined, JsNull, JsString(""), JsNumber(42), JsString("DM-1"),
    JsString("DM-2") }
Methods ==
  { Undefined } \cup { JsString(m) : m \in SupportedMethods }
  \cup { JsString("pigeon"), JsString("toString") }

\* The options of a send to one recipient, and those of an ordinary send.
SendOptions == [method : Methods, mintId : MintIds, to : {"bob"}]
PlainSend ==
  [method |-> Undefined, mintId |-> JsString("DM-1"), to |-> "bob"]

\* What callers pass as apiKey: nothing, a short string, a number, a string
\* of 16 characters or more.
ApiKeys ==
  { JsNull, JsString("short-key"), JsNumber(12345),
    JsString("test-key-minimum-16ch") }

\* The recipients callers put in a batch: one with the default method, one
\* with an unsupported method, and one whose own mintId is a number.
RecipientKinds ==
  { [method |-> Undefined, mintId |-> Absent],
    [method |-> JsString("pigeon"), mintId |-> Absent],
    [method |-> Undefined, mintId |-> JsNumber(42)] }

\* Recipient i of a batch is addressed to i.
RecipientLists ==
  UNION { { [i \in 1..n |-> [method |-> k[i].method, mintId |-> k[i].mintId,
                             to |-> i]] :
              k \in [1..n -> RecipientKinds] } : n \in 0..MaxRecipients }

\* What callers pass as recipients: nothing, a string, a list.
RecipientsValues ==
  { Undefined, JsString("alice") } \cup { JsArray(l) : l \in RecipientLists }

BulkOptions ==
  [mintId : { Undefined, JsString("DM-1") }, recipients : RecipientsValues]

Configs ==
  [signingKeyJwk : JwkConfigs, apiKey : ApiKeys, chittyId : {Null}]

\* A configuration that concerns the receipt engine only.
EngineConfig(jwk) ==
  [signingKeyJwk |-> jwk, apiKey |-> JsNull, chittyId |-> Null]

NoOp == [options |-> Null, op |-> "", object |-> 0, outcome |-> NoOutcome]

DlvrInit ==
  /\ nextDeliveryId = 1
  /\ dispatched = 0
  /\ lastOp = NoOp

\* dlvr.initialize() on object e.  lastOp keeps, as the call's options,
\* the initialized flag the call found, and with the returned object
\* whether validateApiKey ran.
Initialize(e) ==
  LET r == initialize(initialized[e], apiKey[e]) IN
  /\ constructed[e]
  /\ initialized' = [initialized EXCEPT ![e] = r.initialized]
  /\ lastOp' =
       [op |-> "initialize", object |-> e,
        options |-> [initialized |-> initialized[e]],
        outcome |->
          IF r.threw THEN Throw("Invalid API key format")
          ELSE [NoOutcome EXCEPT
                  !.value = [this |-> e, validated |-> r.validated]]]
  /\ UNCHANGED << apiKey, chittyId, nextDeliveryId, dispatched, receiptVars,
                  workerVars, serviceVars >>

\* dlvr.send(options) on object e.
Send(e, options) ==
  LET from == IF chittyId[e] = Null THEN "anonymous" ELSE chittyId[e].id
      r == send(from, options, nextDeliveryId)
  IN
  /\ constructed[e]
  /\ nextDeliveryId <= MaxOps
  /\ nextDeliveryId' = IF r.idGenerated THEN nextDeliveryId + 1
                       ELSE nextDeliveryId
  /\ dispatched' = IF r.dispatched THEN dispatched + 1 ELSE dispatched
  /\ lastOp' = [op |-> "send", object |-> e, options |-> options,
                outcome |-> r]
  /\ UNCHANGED << objectVars, receiptVars, workerVars, serviceVars >>

\* The statuses of the multiplier table, lines 423-433.
Statuses ==
  {"PENDING", "SENT", "DELIVERED", "OPENED", "ACKNOWLEDGED", "RECEIPTED",
   "FAILED", "BOUNCED", "REFUSED"}

\* Names callers can pass for a method or a status: those of the tables, a
\* name in neither table, and a name every object inherits.
MethodNames == SupportedMethods \cup {"pigeon"} \cup InheritedKeys
StatusNames == Statuses \cup {"ARCHIVED"} \cup InheritedKeys

\* dlvr.calculateDeliveryScore(method, status) on object e.
CalculateDeliveryScore(e, method, status) ==
  /\ constructed[e]
  /\ lastOp' = [op |-> "calculateDeliveryScore", object |-> e,
                options |-> [method |-> method, status |-> status],
                outcome |-> [NoOutcome EXCEPT !.value =
                  [score |-> calculateDeliveryScore(method, status)]]]
  /\ UNCHANGED << nextDeliveryId, dispatched, objectVars, receiptVars,
                  workerVars, serviceVars >>

\* dlvr.bulkSend(options) on object e.
BulkSend(e, options) ==
  LET from == IF chittyId[e] = Null THEN "anonymous" ELSE chittyId[e].id
      r == bulkSend(from, options, nextDeliveryId)
      sends == IF r.threw THEN 0 ELSE r.value.sent
  IN
  /\ constructed[e]
  /\ nextDeliveryId <= MaxOps
  /\ nextDeliveryId' = nextDeliveryId + sends
  /\ dispatched' = dispatched + sends
  /\ lastOp' = [op |-> "bulkSend", object |-> e, options |-> options,
                outcome |-> r]
  /\ UNCHANGED << objectVars, receiptVars, workerVars, serviceVars >>

(***************************************************************************)
(* confirm, opened and receipt, receipt.js lines 273-325.  A second        *)
(* argument left out is {}; the default does not apply to null, and        *)
(* reading a property of null throws a TypeError.                          *)
(***************************************************************************)
\* confirmation.method || 'email', viewData.method || 'email'
MethodOrEmail(data) ==
  IF data = Undefined \/ ~Truthy(data.method) THEN "email"
  ELSE data.method.str

\* The result object of confirm and of opened.
EventResult(deliveryId, status, data) ==
  [NoOutcome EXCEPT
     !.value = [deliveryId |-> deliveryId, status |-> status,
                proof |-> [pillar |-> "delivery",
                           score |-> calculateDeliveryScore(
                                       MethodOrEmail(data), status)]]]

\* confirm that asks for an identifier send has handed out.
confirmKnownOnly(deliveryId, confirmation) ==
  IF deliveryId >= nextDeliveryId THEN Throw("Delivery not found")
  ELSE IF confirmation = JsNull THEN Throw("TypeError")
  ELSE EventResult(deliveryId, "DELIVERED", confirmation)

\* ChittyDLVR.confirm(deliveryId, confirmation), lines 273-290.
confirm(deliveryId, confirmation) ==
  IF confirmation = JsNull THEN Throw("TypeError")
  ELSE EventResult(deliveryId, "DELIVERED", confirmation)

\* ChittyDLVR.opened(deliveryId, viewData), lines 295-313.
opened(deliveryId, viewData) ==
  IF viewData = JsNull THEN Throw("TypeError")
  ELSE EventResult(deliveryId, "OPENED", viewData)

\* Identifiers a caller can name: those send has returned or will return,
\* and one it never returns.
DeliveryIds == 1..(MaxOps + 1)

\* The second argument of confirm and opened.
EventData ==
  { Undefined, JsNull, [method |-> Undefined], [method |-> JsString("sms")] }

\* dlvr.confirm(deliveryId, confirmation) on object e.
Confirm(e, deliveryId, confirmation) ==
  /\ constructed[e]
  /\ lastOp' = [op |-> "confirm", object |-> e,
                options |-> [deliveryId |-> deliveryId, data |-> confirmation],
                outcome |-> confirm(deliveryId, confirmation)]
  /\ UNCHANGED << nextDeliveryId, dispatched, objectVars, receiptVars,
                  workerVars, serviceVars >>

\* dlvr.opened(deliveryId, viewData) on object e.
Opened(e, deliveryId, viewData) ==
  /\ constructed[e]
  /\ lastOp' = [op |-> "opened", object |-> e,
                options |-> [deliveryId |-> deliveryId, data |-> viewData],
                outcome |-> opened(deliveryId, viewData)]
  /\ UNCHANGED << nextDeliveryId, dispatched, objectVars, receiptVars,
                  workerVars, serviceVars >>

\* dlvr.receipt(deliveryId, options) on object e, lines 318-325: create
\* call c starts and runs up to its first await.  The deliveryId goes into
\* the payload and is looked at by nothing.
Receipt(e, c, deliveryId) ==
  /\ constructed[e]
  /\ BeginCreate(c, e, CharA, "digital")
  /\ lastOp' = [op |-> "receipt", object |-> e,
                options |-> [deliveryId |-> deliveryId, data |-> Undefined],
                outcome |-> [NoOutcome EXCEPT
                              !.idGenerated = TRUE,
                              !.value = [receiptId |-> nextReceiptId]]]
  /\ UNCHANGED << constructed, signingKeyJwk, keyPair, receipts, keyInits,
                  nextKey, lastVerify, objectVars, nextDeliveryId, dispatched,
                  workerVars, serviceVars >>

\* createPhysicalReceipt, src/unnamed/part_001 lines 501-527: the scores of a return receipt.
createPhysicalReceipt(receiptId) ==
  [NoOutcome EXCEPT
     !.idGenerated = TRUE,
     !.value = [receiptId |-> receiptId, type |-> "physical",
                status |-> "VALID",
                legal |-> [score |-> 75, technical |-> 70, arguable |-> 80]]]

\* dlvr.receipts.createPhysicalReceipt(options) on object e.
CreatePhysicalReceipt(e) ==
  /\ constructed[e]
  /\ nextReceiptId <= MaxCalls
  /\ nextReceiptId' = nextReceiptId + 1
  /\ lastOp' = [op |-> "createPhysicalReceipt", object |-> e,
                options |-> Null,
                outcome |-> createPhysicalReceipt(nextReceiptId)]
  /\ UNCHANGED << constructed, signingKeyJwk, keyPair, receipts, keyInits,
                  calls, nextKey, lastVerify, objectVars, nextDeliveryId,
                  dispatched, workerVars, serviceVars >>

\* The method a receipt is created with: one of the table, one the table
\* does not have, and a name every object inherits.
ReceiptMethods == {"digital", "courier", "toString"}

(***************************************************************************)
(* The worker, src/unnamed/part_006 lines 138-400.                         *)
(***************************************************************************)
Envs ==
  [INTERNAL_API_KEY : { Undefined, JsString("short-key"),
                        JsString("test-key-minimum-16ch") },
   CHITTY_AUTH_SERVICE_TOKEN : { Undefined, JsString("service-token") },
   SIGNING_KEY_JWK : JwkConfigs]

Routes ==
  {"health", "serviceStatus", "verifyReceipt", "verifyOther", "track",
   "send", "status", "confirm", "receipt", "serve", "bulk", "other"}

\* Paths under /verify/ and /track/.
PublicRoutes == {"verifyReceipt", "verifyOther", "track"}

\* token is what follows "Bearer " in the Authorization header, "" without
\* such a header; idOk says the identifier in the path has the prefix its
\* route asks for; body is the request body: not JSON, the JSON null, an
\* object without the route's required fields, an object with them; id is
\* the receipt a /verify/receipt/ path names.
RequestsOf(routes, idOks, bodies, ids) ==
  [id : ids, route : routes, verb : {"GET", "POST", "OPTIONS"},
   token : {"", "service-token", "other-token"}, idOk : idOks,
   body : bodies]

Bodies == {"invalidJson", "null", "missing", "valid"}

\* Every route with the parts of a request it looks at.
Requests ==
  RequestsOf({"health", "serviceStatus", "verifyOther", "other"},
             {TRUE}, {"valid"}, {1})
  \cup RequestsOf({"verifyReceipt"}, BOOLEAN, {"valid"}, Calls)
  \cup RequestsOf({"track", "status"}, BOOLEAN, {"valid"}, {1})
  \cup RequestsOf({"send", "serve", "bulk"}, {TRUE}, Bodies, {1})
  \cup RequestsOf({"confirm", "receipt"}, {TRUE}, Bodies, {1})
  \cup RequestsOf({"confirm", "receipt"}, {FALSE}, {"valid"}, {1})

\* authenticate accepting whatever follows "Bearer ".
authenticateAnyBearer(request, environment) == request.token # ""

\* authenticate, lines 170-197: two strings have the same SHA-256 hash
\* when they are equal.
authenticate(request, environment) ==
  /\ request.token # ""
  /\ Truthy(environment.CHITTY_AUTH_SERVICE_TOKEN)
  /\ request.token = environment.CHITTY_AUTH_SERVICE_TOKEN.str

\* A response, and the orchestrator operation that ran for it.
Answer(status, op) == [status |-> status, op |-> op, verified |-> FALSE]

\* A route that reads its JSON body and checks required fields before it
\* calls the orchestrator (lines 287-295, 340-351, 356-367).  Reading a
\* field of the JSON null throws, which fetch answers with 500.
BodyRoute(request, op) ==
  CASE request.body = "invalidJson" -> Answer(400, "")
    [] request.body = "null" -> Answer(500, "")
    [] request.body = "missing" -> Answer(400, "")
    [] OTHER -> Answer(201, op)

\* handlePublicRoute, lines 373-400: the orchestrator is new, so its
\* receipt store is empty and its engine has no keypair.
handlePublicRoute(request) ==
  CASE request.route = "verifyReceipt" ->
         IF ~request.idOk THEN Answer(400, "")
         ELSE [Answer(200, "verify") EXCEPT !.verified =
                 verify({}, Null, request.id,
                        getById({}, request.id)).verified]
    [] request.route = "track" ->
         IF ~request.idOk THEN Answer(400, "") ELSE Answer(200, "status")
    [] OTHER -> Answer(404, "")

\* handleRequest, lines 271-371.
handleRequest(request, environment) ==
  IF request.route \in PublicRoutes THEN handlePublicRoute(request)
  ELSE IF ~authenticate(request, environment) THEN Answer(401, "")
  ELSE
    CASE request.verb = "POST" /\ request.route = "send" ->
           BodyRoute(request, "send")
      [] request.verb = "GET" /\ request.route = "status" ->
           IF ~request.idOk THEN Answer(400, "") ELSE Answer(200, "status")
      [] request.verb = "POST" /\ request.route = "confirm" ->
           IF ~request.idOk \/ request.body = "invalidJson"
           THEN Answer(400, "")
           ELSE IF request.body = "null" THEN Answer(500, "confirm")
           ELSE Answer(200, "confirm")
      [] request.verb = "POST" /\ request.route = "receipt" ->
           IF ~request.idOk THEN Answer(400, "")
           ELSE BodyRoute(request, "receipt")
      [] request.verb = "POST" /\ request.route = "serve" ->
           BodyRoute(request, "serve")
      [] request.verb = "POST" /\ request.route = "bulk" ->
           BodyRoute(request, "bulkSend")
      [] OTHER -> Answer(404, "")

\* The configuration fetch builds its orchestrator from, lines 256-260.
WorkerConfig(environment) ==
  [apiKey |-> environment.INTERNAL_API_KEY, chittyId |-> Null,
   signingKeyJwk |-> environment.SIGNING_KEY_JWK]

\* fetch, lines 212-268.
fetch(request, environment) ==
  IF request.route \in {"health", "serviceStatus"} THEN Answer(200, "")
  ELSE IF request.verb = "OPTIONS" THEN Answer(204, "")
  ELSE IF ~Truthy(environment.INTERNAL_API_KEY) THEN Answer(503, "")
  ELSE IF initialize(FALSE, environment.INTERNAL_API_KEY).threw
  THEN Answer(500, "")
  ELSE handleRequest(request, environment)

\* A route the worker guards with the bearer token.
Protected(request) ==
  /\ request.route \notin {"health", "serviceStatus"} \cup PublicRoutes
  /\ request.verb # "OPTIONS"

\* The request carries a bearer token, a service token is configured, and
\* the two are the same string.
CarriesServiceToken(request, environment) ==
  /\ request.token # ""
  /\ environment.CHITTY_AUTH_SERVICE_TOKEN = JsString(request.token)

\* created says the request names a receipt some create call of this
\* process has stored.
Response(request, answer) ==
  [protected |-> Protected(request),
   tokenOk |-> env # Null /\ CarriesServiceToken(request, env),
   status |-> answer.status, op |-> answer.op,
   verified |-> answer.verified,
   created |-> /\ answer.op = "verify"
               /\ \E c \in Calls : /\ calls[c].pc = "done"
                                   /\ calls[c].receiptId = request.id]

\* What the worker's send and bulk routes hand to the orchestrator: a body
\* with the required fields and one recipient.
WorkerOptions ==
  [method |-> Undefined, mintId |-> JsString("DM-1"), to |-> "bob"]

WorkerInit ==
  /\ env = Null
  /\ pending = {}
  /\ lastResponse = Null

\* The process starts with its environment bindings.
WorkerBoot(environment) ==
  /\ env = Null
  /\ env' = environment
  /\ UNCHANGED << pending, lastResponse, receiptVars, objectVars, dlvrVars,
                  serviceVars >>

\* A request that fetch answers without waiting for a receipt.  The
\* orchestrator it builds is dropped with the response.
WorkerFetch(request) ==
  LET answer == fetch(request, env)
      sends == answer.op \in {"send", "bulkSend"}
  IN
  /\ env # Null
  /\ answer.op # "receipt"
  /\ sends => nextDeliveryId <= MaxOps
  /\ nextDeliveryId' = IF sends THEN nextDeliveryId + 1 ELSE nextDeliveryId
  /\ dispatched' = IF sends THEN dispatched + 1 ELSE dispatched
  /\ lastOp' = IF answer.op = "send"
               THEN [op |-> "send", object |-> 0, options |-> WorkerOptions,
                     outcome |-> send("authenticated", WorkerOptions,
                                      nextDeliveryId)]
               ELSE lastOp
  /\ lastResponse' = Response(request, answer)
  /\ UNCHANGED << env, pending, receiptVars, objectVars, serviceVars >>

\* POST /dlvr/v1/receipt/<deliveryId>, accepted: fetch builds orchestrator
\* e, initializes it, and dlvr.receipt runs create up to its first await.
WorkerReceipt(request, c, e) ==
  /\ env # Null
  /\ calls[c].pc = "idle" /\ ~constructed[e]
  /\ Cardinality(pending) < MaxPending
  /\ fetch(request, env).op = "receipt"
  /\ NewObject(e, WorkerConfig(env))
  /\ initialized' = [initialized EXCEPT ![e] = TRUE]
  /\ BeginCreate(c, e, CharA, "digital")
  /\ pending' = pending \cup {c}
  /\ UNCHANGED << keyInits, nextKey, lastVerify, dlvrVars, env,
                  lastResponse, serviceVars >>

\* create has settled: 201 with the receipt, or fetch's catch answers 500.
WorkerRespond(c) ==
  /\ c \in pending
  /\ calls[c].pc \in {"done", "failed"}
  /\ pending' = pending \ {c}
  /\ lastResponse' =
       [protected |-> TRUE, tokenOk |-> TRUE,
        status |-> IF calls[c].pc = "done" THEN 201 ELSE 500,
        op |-> "receipt", verified |-> FALSE, created |-> FALSE]
  /\ UNCHANGED << env, receiptVars, objectVars, dlvrVars, serviceVars >>

(***************************************************************************)
(* ServiceEngine: legal service of process (src/core/service.js).  The     *)
(* engine keeps no fields of its own: initiate, recordAttempt and          *)
(* recordAffidavit each build a fresh object from their arguments.         *)
(* services, attemptsRecorded and affidavitsFiled record what these calls  *)
(* have returned under each serviceId, so that properties about a case's   *)
(* history can be stated.                                                  *)
(***************************************************************************)
VALID_SERVICE_TYPES == {"personal", "substituted", "constructive",
                        "publication"}

ServiceIds == 1..MaxServices

\* const { serviceType = 'personal' } = options: the default applies to
\* undefined only.
ServiceTypeOf(options) ==
  IF options.serviceType = Undefined THEN JsString("personal")
  ELSE options.serviceType

\* reqs[serviceType] || reqs.personal; the flags an entry sets to true.
getRequirements(serviceType) ==
  CASE serviceType = "substituted" ->
         [flags |-> {"atAddress", "competentPerson", "mailCopy",
                     "affidavitRequired", "courtOrderMayBeRequired"},
          durationWeeks |-> Null]
    [] serviceType = "constructive" ->
         [flags |-> {"postedOnDoor", "mailCopy", "affidavitRequired",
                     "courtOrderRequired"},
          durationWeeks |-> Null]
    [] serviceType = "publication" ->
         [flags |-> {"newspaperNotice", "courtOrderRequired",
                     "affidavitRequired", "proofOfPublication"},
          durationWeeks |-> 4]
    [] OTHER ->
         [flags |-> {"inPerson", "identifyRespondent", "handDeliver",
                     "affidavitRequired", "witnessOptional"},
          durationWeeks |-> Null]

\* getMaxAttempts with every type allowed three attempts.
getMaxAttemptsFlat(serviceType) == 3

\* attempts[serviceType] || 3
getMaxAttempts(serviceType) ==
  CASE serviceType = "personal" -> 3
    [] serviceType = "substituted" -> 2
    [] serviceType = "constructive" -> 1
    [] serviceType = "publication" -> 1
    [] OTHER -> 3

Min(a, b) == IF a <= b THEN a ELSE b

\* score + bonus with no ceiling.
Uncapped(score, bonus) == IF score = NaN THEN NaN ELSE score + bonus

\* Math.min(100, score + bonus); NaN stays NaN.
Capped(score, bonus) == IF score = NaN THEN NaN ELSE Min(100, score + bonus)

\* base[serviceType] || other.  An inherited member is a function: the
\* default is not taken and the score is not a number.
BaseScore(personal, substituted, constructive, publication, other, serviceType) ==
  CASE serviceType = "personal" -> personal
    [] serviceType = "substituted" -> substituted
    [] serviceType = "constructive" -> constructive
    [] serviceType = "publication" -> publication
    [] serviceType \in InheritedKeys -> NaN
    [] OTHER -> other

scoreAffidavit(serviceType, details) ==
  LET base == BaseScore(95, 80, 70, 65, 70, serviceType)
      notarized == IF details.notarized THEN Capped(base, 5) ELSE base
  IN IF details.witnessPresent THEN Capped(notarized, 3) ELSE notarized

scoreTechnical(serviceType, details) ==
  LET base == BaseScore(90, 75, 65, 60, 65, serviceType)
  IN IF details.geoVerified THEN Capped(base, 5) ELSE base

scoreArguable(serviceType, details) ==
  LET base == BaseScore(95, 85, 75, 70, 70, serviceType)
      notarized == IF details.notarized THEN Capped(base, 5) ELSE base
  IN IF details.witnessPresent THEN Capped(notarized, 5) ELSE notarized

\* The object initiate returns (service.js l.38-81).
ServiceCase(options, serviceId) ==
  LET serviceType == ServiceTypeOf(options).str
  IN [serviceId |-> serviceId,
      mintId |-> options.mintId,
      respondent |-> options.respondent,
      serviceType |-> serviceType,
      status |-> "INITIATED",
      statusHistory |-> << [status |-> "INITIATED", actor |-> "system"] >>,
      attempts |-> << >>,
      maxAttempts |-> getMaxAttempts(serviceType),
      requirements |-> getRequirements(serviceType),
      proof |-> [method |-> "legalService", serviceType |-> serviceType,
                 score |-> 0, affidavitFiled |-> FALSE]]

\* initiate with any serviceType accepted.
initiateUnchecked(options, serviceId) ==
  [NoOutcome EXCEPT !.idGenerated = TRUE,
                    !.value = ServiceCase(options, serviceId)]

\* ServiceEngine.initiate(options), reached through ChittyDLVR.serve, with
\* serviceId the identifier generateServiceId would draw.
initiate(options, serviceId) ==
  IF ServiceTypeOf(options).str \notin VALID_SERVICE_TYPES
  THEN Throw("Invalid service type")
  ELSE [NoOutcome EXCEPT !.idGenerated = TRUE,
                         !.value = ServiceCase(options, serviceId)]

\* ServiceEngine.recordAttempt(serviceId, attempt).  Reading a property of
\* an attempt that is undefined throws a TypeError; nothing else is checked.
recordAttempt(serviceId, attempt) ==
  IF attempt = Undefined THEN Throw("TypeError")
  ELSE [NoOutcome EXCEPT
          !.value =
            [serviceId |-> serviceId,
             attemptNumber |-> IF attempt.attemptNumber = 0 THEN 1
                               ELSE attempt.attemptNumber,
             successful |-> attempt.successful,
             witnessed |-> TRUE,
             witness |-> "ChittyOS"]]

\* The flags of `details`; details = {} when the caller gives none.
DetailsOf(options) ==
  IF options.details = Undefined
  THEN [notarized |-> FALSE, witnessPresent |-> FALSE, geoVerified |-> FALSE]
  ELSE options.details

\* ServiceEngine.recordAffidavit(options), reached through
\* ChittyDLVR.recordService(serviceId, affidavit).
recordAffidavit(options) ==
  LET serviceType == ServiceTypeOf(options).str
      details == DetailsOf(options)
  IN [NoOutcome EXCEPT
        !.idGenerated = TRUE,
        !.value =
          [serviceId |-> options.serviceId,
           serviceType |-> serviceType,
           sworn |-> TRUE,
           notarized |-> details.notarized,
           witnessPresent |-> details.witnessPresent,
           proof |-> [method |-> "legalService",
                      score |-> scoreAffidavit(serviceType, details),
                      technical |-> scoreTechnical(serviceType, details),
                      arguable |-> scoreArguable(serviceType, details)],
           status |-> "FILED"]]

\* The serviceType a caller passes: left out, one of the four, a name the
\* engine does not know, and a name every object inherits.
ServiceTypeValues ==
  {Undefined} \cup
  {JsString(t) : t \in VALID_SERVICE_TYPES \cup {"certified", "toString"}}

DetailsValues ==
  {Undefined} \cup
  [notarized : BOOLEAN, witnessPresent : BOOLEAN, geoVerified : BOOLEAN]

\* attemptNumber 0 stands for an attempt that gives no number.
AttemptValues ==
  {Undefined} \cup [attemptNumber : {0, 2}, successful : BOOLEAN]

ServiceInit ==
  /\ nextServiceId = 1
  /\ services = [id \in ServiceIds |-> Null]
  /\ attemptsRecorded = [id \in ServiceIds |-> 0]
  /\ affidavitsFiled = [id \in ServiceIds |-> 0]

\* dlvr.serve(mintId, options) on orchestrator e.
Serve(e, mintId, serviceType) ==
  LET options == [mintId |-> mintId, respondent |-> "bob",
                  serviceType |-> serviceType]
      outcome == initiate(options, nextServiceId)
  IN
  /\ constructed[e]
  /\ nextServiceId <= MaxServices
  /\ nextServiceId' = IF outcome.idGenerated THEN nextServiceId + 1
                      ELSE nextServiceId
  /\ services' = IF outcome.threw THEN services
                 ELSE [services EXCEPT ![nextServiceId] = outcome.value]
  /\ lastOp' = [op |-> "serve", object |-> e, options |-> options,
                outcome |-> outcome]
  /\ UNCHANGED << attemptsRecorded, affidavitsFiled, nextDeliveryId,
                  dispatched, objectVars, receiptVars, workerVars >>

\* dlvr.service.recordAttempt(serviceId, attempt) on orchestrator e.
RecordAttempt(e, serviceId, attempt) ==
  LET outcome == recordAttempt(serviceId, attempt)
  IN
  /\ constructed[e]
  /\ attemptsRecorded[serviceId] < MaxServiceCalls
  /\ attemptsRecorded' =
       IF outcome.threw THEN attemptsRecorded
       ELSE [attemptsRecorded EXCEPT ![serviceId] = @ + 1]
  /\ lastOp' = [op |-> "recordAttempt", object |-> e,
                options |-> [serviceId |-> serviceId, attempt |-> attempt],
                outcome |-> outcome]
  /\ UNCHANGED << nextServiceId, services, affidavitsFiled, nextDeliveryId,
                  dispatched, objectVars, receiptVars, workerVars >>

\* dlvr.recordService(serviceId, affidavit) on orchestrator e.
RecordService(e, serviceId, serviceType, details) ==
  LET options == [serviceId |-> serviceId, serviceType |-> serviceType,
                  details |-> details]
      outcome == recordAffidavit(options)
  IN
  /\ constructed[e]
  /\ affidavitsFiled[serviceId] < MaxServiceCalls
  /\ affidavitsFiled' =
       IF outcome.threw THEN affidavitsFiled
       ELSE [affidavitsFiled EXCEPT ![serviceId] = @ + 1]
  /\ lastOp' = [op |-> "recordService", object |-> e, options |-> options,
                outcome |-> outcome]
  /\ UNCHANGED << nextServiceId, services, attemptsRecorded, nextDeliveryId,
                  dispatched, objectVars, receiptVars, workerVars >>

vars == << receiptVars, objectVars, dlvrVars, workerVars, serviceVars >>

Init == ReceiptInit /\ DlvrInit /\ WorkerInit /\ ServiceInit

(***************************************************************************)
(* One engine, create calls running concurrently.                          *)
(***************************************************************************)
ReceiptNext ==
  \/ \E jwk \in JwkConfigs : Construct(1, EngineConfig(jwk))
  \/ \E c \in Calls, s \in Signers : CreateStart(c, 1, s, "digital")
  \/ \E c \in Calls, resp \in BeaconResponses : FetchResume(c, resp)
  \/ \E c \in Calls : ImportDone(c)
  \/ \E c \in Calls : GenerateDone(c)
  \/ \E c \in Calls : GenerateFail(c)
  \/ \E c \in Calls : SignStore(c)
  \/ VerifyById(1)
  \/ VerifyData(1)

SpecReceipt == Init /\ [][ReceiptNext]_vars

(***************************************************************************)
(* Two engines, each with its own key configuration, the beacon up, create *)
(* calls one after the other; a receipt of one engine is verified on the   *)
(* other.                                                                  *)
(***************************************************************************)
EnginesNext ==
  \/ \E e \in Engines, jwk \in JwkConfigs : Construct(e, EngineConfig(jwk))
  \/ \E c \in Calls, e \in Engines, s \in Signers :
       CreateAlone(c, e, s, "digital")
  \/ \E c \in Calls : FetchResume(c, HealthyBeacon)
  \/ \E c \in Calls : ImportDone(c)
  \/ \E c \in Calls : GenerateDone(c)
  \/ \E c \in Calls : SignStore(c)
  \/ \E e \in Engines : VerifyReturned(e)

SpecEngines == Init /\ [][EnginesNext]_vars

(***************************************************************************)
(* One engine with a usable key configuration and a beacon that answers    *)
(* well, badly or not at all.  Every await that has something to resume it *)
(* is resumed: the runtime runs a settled promise's continuation, and a    *)
(* beacon that answers does so in the end.                                 *)
(***************************************************************************)
BeaconNext ==
  \/ \E jwk \in {"none", "valid"} : Construct(1, EngineConfig(jwk))
  \/ \E c \in Calls, s \in Signers : CreateStart(c, 1, s, "digital")
  \/ \E c \in Calls, resp \in BeaconResponses : FetchResume(c, resp)
  \/ \E c \in Calls : BeaconSilent(c)
  \/ \E c \in Calls : ImportDone(c)
  \/ \E c \in Calls : GenerateDone(c)
  \/ \E c \in Calls : SignStore(c)

BeaconFairness ==
  \A c \in Calls :
    /\ WF_vars(\E resp \in BeaconResponses : FetchResume(c, resp))
    /\ WF_vars(ImportDone(c))
    /\ WF_vars(GenerateDone(c))
    /\ WF_vars(SignStore(c))

SpecBeacon == Init /\ [][BeaconNext]_vars /\ BeaconFairness

(***************************************************************************)
(* One engine, create calls one after the other, and verify handed         *)
(* receipts in every condition.                                            *)
(***************************************************************************)
VerifyNext ==
  \/ \E jwk \in JwkConfigs : Construct(1, EngineConfig(jwk))
  \/ \E c \in Calls, s \in Signers : CreateAlone(c, 1, s, "digital")
  \/ \E c \in Calls, resp \in BeaconResponses : FetchResume(c, resp)
  \/ \E c \in Calls : ImportDone(c)
  \/ \E c \in Calls : GenerateDone(c)
  \/ \E c \in Calls : SignStore(c)
  \/ VerifyById(1)
  \/ VerifyAny(1)

SpecVerify == Init /\ [][VerifyNext]_vars

(***************************************************************************)
(* One orchestrator and its callers.                                       *)
(***************************************************************************)
DlvrNext ==
  \/ \E config \in Configs : Construct(1, config)
  \/ Initialize(1)
  \/ \E options \in SendOptions : Send(1, options)

SpecDlvr == Init /\ [][DlvrNext]_vars

(***************************************************************************)
(* One orchestrator with a usable key configuration: deliveries sent,      *)
(* confirmed, opened and receipted in whatever order its callers choose.   *)
(***************************************************************************)
OrderNext ==
  \/ \E jwk \in {"none", "valid"} : Construct(1, EngineConfig(jwk))
  \/ Send(1, PlainSend)
  \/ \E id \in DeliveryIds, data \in EventData : Confirm(1, id, data)
  \/ \E id \in DeliveryIds, data \in EventData : Opened(1, id, data)
  \/ \E c \in Calls, id \in DeliveryIds : Receipt(1, c, id)
  \/ \E c \in Calls : FetchResume(c, HealthyBeacon)
  \/ \E c \in Calls : ImportDone(c)
  \/ \E c \in Calls : GenerateDone(c)
  \/ \E c \in Calls : SignStore(c)

SpecOrder == Init /\ [][OrderNext]_vars

(***************************************************************************)
(* One orchestrator and the batches its callers send.                      *)
(***************************************************************************)
BulkNext ==
  \/ Construct(1, EngineConfig("none"))
  \/ \E options \in BulkOptions : BulkSend(1, options)

SpecBulk == Init /\ [][BulkNext]_vars

(***************************************************************************)
(* One orchestrator asked for delivery scores.                             *)
(***************************************************************************)
ScoreNext ==
  \/ \E config \in Configs : Construct(1, config)
  \/ \E method \in MethodNames, status \in StatusNames :
       CalculateDeliveryScore(1, method, status)

SpecScore == Init /\ [][ScoreNext]_vars

(***************************************************************************)
(* One orchestrator producing scores of every kind.                        *)
(***************************************************************************)
\* Affidavit details with no flag set and with every flag set.
ScoreDetails ==
  {Undefined} \cup
  {[notarized |-> b, witnessPresent |-> b, geoVerified |-> b] : b \in BOOLEAN}

AllScoresNext ==
  \/ Construct(1, EngineConfig("none"))
  \/ \E method \in MethodNames, status \in StatusNames :
       CalculateDeliveryScore(1, method, status)
  \/ \E serviceType \in ServiceTypeValues, details \in ScoreDetails :
       RecordService(1, 1, serviceType, details)
  \/ \E method \in ReceiptMethods : CreateAlone(1, 1, CharA, method)
  \/ FetchResume(1, HealthyBeacon)
  \/ GenerateDone(1)
  \/ SignStore(1)
  \/ CreatePhysicalReceipt(1)

SpecAllScores == Init /\ [][AllScoresNext]_vars

(***************************************************************************)
(* Orchestrators asked to initiate service of process.                    *)
(***************************************************************************)
ServeNext ==
  \/ \E config \in Configs : Construct(1, config)
  \/ \E serviceType \in ServiceTypeValues :
       Serve(1, JsString("alice"), serviceType)

SpecServe == Init /\ [][ServeNext]_vars

(***************************************************************************)
(* One orchestrator recording affidavits of every kind.                    *)
(***************************************************************************)
AffidavitNext ==
  \/ Construct(1, EngineConfig("none"))
  \/ Serve(1, JsString("alice"), JsString("personal"))
  \/ \E serviceId \in ServiceIds, serviceType \in ServiceTypeValues,
        details \in DetailsValues :
       RecordService(1, serviceId, serviceType, details)

SpecAffidavit == Init /\ [][AffidavitNext]_vars

(***************************************************************************)
(* One orchestrator and the history of its service cases.                  *)
(***************************************************************************)
ServiceNext ==
  \/ Construct(1, EngineConfig("none"))
  \/ \E serviceType \in ServiceTypeValues :
       Serve(1, JsString("alice"), serviceType)
  \/ \E serviceId \in ServiceIds, attempt \in AttemptValues :
       RecordAttempt(1, serviceId, attempt)
  \/ \E serviceId \in ServiceIds :
       RecordService(1, serviceId, Undefined, Undefined)

SpecService == Init /\ [][ServiceNext]_vars

(***************************************************************************)
(* One worker process and the requests it serves, the beacon up.           *)
(***************************************************************************)
WorkerNext ==
  \/ \E environment \in Envs : WorkerBoot(environment)
  \/ \E request \in Requests : WorkerFetch(request)
  \/ \E request \in RequestsOf({"receipt"}, BOOLEAN, Bodies, {1}),
        c \in Calls, e \in Engines :
       WorkerReceipt(request, c, e)
  \/ \E c \in Calls : FetchResume(c, HealthyBeacon)
  \/ \E c \in Calls : ImportDone(c)
  \/ \E c \in Calls : GenerateDone(c)
  \/ \E c \in Calls : GenerateFail(c)
  \/ \E c \in Calls : SignStore(c)
  \/ \E c \in Calls : WorkerRespond(c)

SpecWorker == Init /\ [][WorkerNext]_vars

(***************************************************************************)
(* One worker process and the requests fetch answers on the spot.          *)
(***************************************************************************)
AuthNext ==
  \/ \E environment \in Envs : WorkerBoot(environment)
  \/ \E request \in Requests : WorkerFetch(request)

SpecAuth == Init /\ [][AuthNext]_vars

(***************************************************************************)
(* Properties.                                                             *)
(***************************************************************************)
\* The engine's fields as verify sees them.
VerifyOn(e, receiptId, receiptData) ==
  verify(receipts[e], keyPair[e], receiptId, receiptData)

Done(c) == calls[c].pc = "done"

\* C1: every receipt that create returned on an engine verifies there by
\* its identifier alone (no receipt data supplied), whatever other create
\* and verify calls have run or are running.
RoundTrip ==
  /\ \A c \in Calls :
       Done(c) => VerifyOn(calls[c].engine, calls[c].receiptId, Null).verified
  /\ (lastVerify.ofCreate /\ ~lastVerify.supplied) => lastVerify.verified

\* A verify by identifier came back true while every create call had
\* returned its receipt.
RoundTripWitness ==
  /\ lastVerify.ofCreate /\ ~lastVerify.supplied /\ lastVerify.verified
  /\ \A c \in Calls : Done(c)

\* C2: verify of a copy of a created receipt whose signedPayload or
\* signature.value differs from the original reports verified = false and
\* does not throw.
TamperDetected ==
  lastVerify.tampered => (~lastVerify.verified /\ ~lastVerify.threw)

KeyErrors ==
  {"Signing key import failed", "Cryptographic key generation failed"}

\* C3: when the beacon fetch fails, fetchDrandRound gives null and create
\* goes on: it can only fail for want of a key, and the receipt it returns
\* has a null anchor, is in the store, and verifies.
AnchorUnavailable ==
  \A c \in Calls : calls[c].beaconFailed =>
    /\ calls[c].drand = Null
    /\ calls[c].pc = "failed" => calls[c].error \in KeyErrors
    /\ Done(c) =>
         /\ calls[c].result.drand = Null
         /\ calls[c].result \in receipts[calls[c].engine]
         /\ VerifyOn(calls[c].engine, calls[c].receiptId, Null).verified

\* A create whose beacon fetch failed returned, and a verify by identifier
\* of its receipt came back true.
AnchorUnavailableWitness ==
  /\ \A c \in Calls : Done(c) /\ calls[c].beaconFailed
  /\ lastVerify.ofCreate /\ ~lastVerify.supplied /\ lastVerify.verified

\* The states an engine's _keyPair can be in.
KeyPairStates ==
  { Null, ImportJwk("valid").keyPair } \cup { GenerateKey(n) : n \in Calls }

\* C4: verify of supplied receipt data gives the same verified on every
\* engine and under every key pair state (none, imported, ephemeral), and
\* leaves the engine's key pair as it found it.
SelfContained ==
  \A data \in ReceiptInputs :
    LET expected == verify({}, Null, data.receiptId, data).verified IN
    /\ \A e \in Engines :
         LET res == VerifyOn(e, data.receiptId, data) IN
         res.verified = expected /\ res.keyPair = keyPair[e]
    /\ \A kp \in KeyPairStates :
         LET res == verify({}, kp, data.receiptId, data) IN
         res.verified = expected /\ res.keyPair = kp

\* An engine without a key pair verified supplied receipt data as true
\* while another engine holds a key pair.
SelfContainedWitness ==
  /\ lastVerify.supplied /\ ~lastVerify.hadKey /\ lastVerify.verified
  /\ \E e \in Engines : keyPair[e] # Null
  /\ \E e \in Engines : constructed[e] /\ keyPair[e] = Null

\* C5: on an engine whose configured key material does not import, no key
\* pair is ever kept or generated, nothing is stored, and a create call
\* ends with the import error and without a receipt.
ImportFailureFatal ==
  \A c \in Calls :
    (calls[c].pc # "idle" /\ signingKeyJwk[calls[c].engine] = "invalid") =>
      /\ keyPair[calls[c].engine] = Null
      /\ keyInits[calls[c].engine] = 0
      /\ receipts[calls[c].engine] = {}
      /\ calls[c].pc \in {"fetch", "import", "failed"}
      /\ calls[c].pc = "failed" =>
           /\ calls[c].error = "Signing key import failed"
           /\ calls[c].result = Null

\* A create call failed on the import of the configured key.
ImportFailureFatalWitness ==
  \E c \in Calls :
    /\ calls[c].pc = "failed"
    /\ signingKeyJwk[calls[c].engine] = "invalid"
    /\ calls[c].beaconFailed = FALSE

\* C6: on every engine key generation or import has run at most once, and
\* every stored receipt carries the public key of the key pair the engine
\* retains.
SingleFlight ==
  \A e \in Engines :
    /\ keyInits[e] <= 1
    /\ \A r \in receipts[e] :
         /\ keyPair[e] # Null
         /\ r.signature.publicKey = bufferToBase64(ExportSpki(keyPair[e]))

RECURSIVE SumOver(_, _)
SumOver(f, S) ==
  IF S = {} THEN 0
  ELSE LET x == CHOOSE y \in S : TRUE IN f[x] + SumOver(f, S \ {x})

\* C7: over the requests one worker process has handled, key generation
\* and import have run at most once in total.
KeyOncePerProcess == SumOver(keyInits, Engines) <= 1

\* The last call was send with these options.
SendCalled == lastOp.op = "send"

\* C8: send with mintId missing or not a string throws the validation
\* error, having generated no delivery identifier and dispatched nothing.
MintIdValidated ==
  (SendCalled /\ lastOp.options.mintId.type # "string") =>
    /\ lastOp.outcome.threw
    /\ lastOp.outcome.error = "mintId is required and must be a string"
    /\ lastOp.outcome.value = Null
    /\ ~lastOp.outcome.idGenerated
    /\ ~lastOp.outcome.dispatched

\* send was called with a number for mintId after a send that went through.
MintIdValidatedWitness ==
  /\ SendCalled /\ lastOp.options.mintId.type = "number"
  /\ lastOp.outcome.threw
  /\ nextDeliveryId > 1

\* C9: send with a valid mintId and a method outside the seven supported
\* ones throws and returns no Delivery.
UnsupportedMethodRejected ==
  (/\ SendCalled
   /\ lastOp.options.mintId.type = "string" /\ Truthy(lastOp.options.mintId)
   /\ MethodOf(lastOp.options) \notin SupportedMethods) =>
    /\ lastOp.outcome.threw
    /\ lastOp.outcome.value = Null

\* C10: a Delivery that send returned has status SENT and the two-entry
\* history PENDING, SENT, so that its status is that of the last entry.
SentHistory ==
  (SendCalled /\ ~lastOp.outcome.threw) =>
    LET delivery == lastOp.outcome.value IN
    /\ delivery.status = "SENT"
    /\ Len(delivery.statusHistory) = 2
    /\ delivery.statusHistory[1].status = "PENDING"
    /\ delivery.statusHistory[2].status = "SENT"
    /\ delivery.status
         = delivery.statusHistory[Len(delivery.statusHistory)].status

\* send returned a Delivery.
SentHistoryWitness ==
  /\ SendCalled /\ ~lastOp.outcome.threw
  /\ lastOp.outcome.value.deliveryId = MaxOps

\* The last call was bulkSend with these options.
BulkCalled == lastOp.op = "bulkSend"

\* The recipients given are a list with at least one entry.
RecipientsGiven(options) ==
  IF options.recipients.type = "array"
  THEN Len(options.recipients.items) > 0
  ELSE FALSE

\* A send for this recipient has to fail: its method is not one of the
\* seven, or the mintId it ends up with is not a non-empty string.
MustFail(mintId, recipient) ==
  LET options == RecipientOptions(mintId, recipient) IN
  \/ MethodOf(options) \notin SupportedMethods
  \/ options.mintId.type # "string"
  \/ ~Truthy(options.mintId)

\* C11: bulkSend over a non-empty list does not throw for a recipient:
\* every recipient whose send has to fail (an unsupported method, say) has
\* a FAILED entry with the error message, the others are SENT, and sent and
\* failed count the two kinds.
BulkIsolatesFailures ==
  (/\ BulkCalled
   /\ lastOp.options.mintId = JsString("DM-1")
   /\ RecipientsGiven(lastOp.options)) =>
    LET items == lastOp.options.recipients.items
        result == lastOp.outcome.value
    IN
    /\ ~lastOp.outcome.threw
    /\ result.totalRecipients = Len(items)
    /\ Len(result.deliveries) = Len(items)
    /\ \A i \in 1..Len(items) :
         IF MustFail(lastOp.options.mintId, items[i])
         THEN /\ result.deliveries[i].status = "FAILED"
              /\ result.deliveries[i].error # ""
         ELSE result.deliveries[i].status = "SENT"
    /\ result.sent = CountStatus(result.deliveries, "SENT")
    /\ result.failed = CountStatus(result.deliveries, "FAILED")

ValidationErrors ==
  {"mintId is required and must be a string",
   "recipients must be a non-empty array"}

\* C12: bulkSend with recipients empty or not a list throws a validation
\* error and sends nothing.
BulkValidated ==
  (BulkCalled /\ ~RecipientsGiven(lastOp.options)) =>
    /\ lastOp.outcome.threw
    /\ lastOp.outcome.error \in ValidationErrors
    /\ lastOp.outcome.value = Null
    /\ ~lastOp.outcome.idGenerated
    /\ ~lastOp.outcome.dispatched

\* bulkSend was called with a mintId and an empty list after a batch that
\* went through, and threw for the recipients.
BulkValidatedWitness ==
  /\ BulkCalled
  /\ lastOp.options = [mintId |-> JsString("DM-1"),
                       recipients |-> JsArray(<< >>)]
  /\ lastOp.outcome.error = "recipients must be a non-empty array"
  /\ nextDeliveryId > 1

\* The last call was initialize.
InitializeCalled == lastOp.op = "initialize"

\* C13: initialize on an orchestrator that is already initialized returns
\* the same object, leaves initialized true, validates no API key and makes
\* no key pair; and no step of any operation turns initialized from true
\* to false.
InitializeIdempotent ==
  /\ [](InitializeCalled =>
          /\ ~lastOp.outcome.threw =>
               /\ lastOp.outcome.value.this = lastOp.object
               /\ initialized[lastOp.object]
          /\ lastOp.options.initialized =>
               /\ ~lastOp.outcome.threw
               /\ ~lastOp.outcome.value.validated)
  /\ [][/\ \A e \in Engines : initialized[e] => initialized'[e]
        /\ (lastOp'.op = "initialize") =>
              (keyPair' = keyPair /\ keyInits' = keyInits)]_vars

\* initialize was called on an initialized orchestrator that has an API key.
InitializeIdempotentWitness ==
  /\ InitializeCalled
  /\ lastOp.options.initialized
  /\ Truthy(apiKey[lastOp.object])
  /\ initialized[lastOp.object]

\* The tables of the delivery score as the contract gives them, the
\* multipliers in hundredths.
MethodBase ==
  [m \in SupportedMethods |->
     CASE m = "legalService" -> 95 [] m = "inPerson" -> 90
       [] m = "portal" -> 85 [] m = "physical" -> 75 [] m = "email" -> 70
       [] m = "api" -> 65 [] m = "sms" -> 60]
StatusMultiplier ==
  [st \in Statuses |->
     CASE st = "PENDING" -> 0 [] st = "SENT" -> 30 [] st = "DELIVERED" -> 60
       [] st = "OPENED" -> 75 [] st = "ACKNOWLEDGED" -> 85
       [] st = "RECEIPTED" -> 100 [] st = "FAILED" -> 0 [] st = "BOUNCED" -> 0
       [] st = "REFUSED" -> 50]

\* n is base times multiplier rounded to the nearest integer, a half
\* upwards.
IsRounded(n, base, hundredths) ==
  /\ 100 * n <= base * hundredths + 50
  /\ base * hundredths + 50 < 100 * (n + 1)

ScoreCalled == lastOp.op = "calculateDeliveryScore"

\* C14: calculateDeliveryScore(method, status) is the rounded product of
\* the method's base (50 for a method not in the table) and the status's
\* multiplier (0 for a status not in the table); (email, SENT) is 21,
\* (legalService, RECEIPTED) 95, (email, PENDING) 0, (email, REFUSED) 35.
DeliveryScoreTable ==
  ScoreCalled =>
    LET method == lastOp.options.method
        status == lastOp.options.status
        score == lastOp.outcome.value.score
    IN
    /\ IsRounded(score,
                 IF method \in SupportedMethods THEN MethodBase[method]
                 ELSE 50,
                 IF status \in Statuses THEN StatusMultiplier[status] ELSE 0)
    /\ (method = "email" /\ status = "SENT") => score = 21
    /\ (method = "legalService" /\ status = "RECEIPTED") => score = 95
    /\ (method = "email" /\ status = "PENDING") => score = 0
    /\ (method = "email" /\ status = "REFUSED") => score = 35

ServiceCalled == lastOp.op = "recordService"

\* The base of each affidavit score by service type, as the contract gives
\* them.
AdmissibilityBase ==
  [t \in VALID_SERVICE_TYPES |->
     CASE t = "personal" -> 95 [] t = "substituted" -> 80
       [] t = "constructive" -> 70 [] OTHER -> 65]
TechnicalBase ==
  [t \in VALID_SERVICE_TYPES |->
     CASE t = "personal" -> 90 [] t = "substituted" -> 75
       [] t = "constructive" -> 65 [] OTHER -> 60]
PersuasiveBase ==
  [t \in VALID_SERVICE_TYPES |->
     CASE t = "personal" -> 95 [] t = "substituted" -> 85
       [] t = "constructive" -> 75 [] OTHER -> 70]

Bonus(flag, points) == IF flag THEN points ELSE 0

ServeCalled == lastOp.op = "serve"

\* C16: serve / initiate with a serviceType outside personal, substituted,
\* constructive and publication fails with an invalid-service-type error
\* and returns no ServiceCase: no identifier is drawn, and every case that
\* was returned has one of the four types.
InvalidServiceTypeRejected ==
  /\ (ServeCalled /\
      ServiceTypeOf(lastOp.options).str \notin VALID_SERVICE_TYPES)
     => /\ lastOp.outcome.threw
        /\ lastOp.outcome.error = "Invalid service type"
        /\ lastOp.outcome.value = Null
        /\ ~lastOp.outcome.idGenerated
  /\ \A id \in ServiceIds :
       services[id] # Null => services[id].serviceType \in VALID_SERVICE_TYPES

\* serve was called with serviceType 'certified' after a case was returned.
InvalidServiceTypeRejectedWitness ==
  /\ ServeCalled
  /\ lastOp.options.serviceType = JsString("certified")
  /\ lastOp.outcome.threw
  /\ services[1] # Null
  /\ nextServiceId = 2

\* maxAttempts by service type, as the contract gives it.
MaxAttemptsOf ==
  [t \in VALID_SERVICE_TYPES |->
     CASE t = "personal" -> 3 [] t = "substituted" -> 2 [] OTHER -> 1]

\* C17: every ServiceCase initiate returns has status INITIATED, no
\* attempts, and a maxAttempts and requirement set fixed by its service
\* type: personal 3, substituted 2, constructive 1, publication 1, and
\* publication requires a court order.
InitiatedCase ==
  /\ (ServeCalled /\ ~lastOp.outcome.threw) =>
       /\ lastOp.outcome.value = services[lastOp.outcome.value.serviceId]
       /\ lastOp.outcome.value.serviceType =
            ServiceTypeOf(lastOp.options).str
  /\ \A id \in ServiceIds :
       services[id] # Null =>
         /\ services[id].status = "INITIATED"
         /\ services[id].attempts = << >>
         /\ services[id].maxAttempts = MaxAttemptsOf[services[id].serviceType]
         /\ services[id].serviceType = "publication" =>
              "courtOrderRequired" \in services[id].requirements.flags
         /\ \A other \in ServiceIds :
              (services[other] # Null /\
               services[other].serviceType = services[id].serviceType)
              => /\ services[other].requirements = services[id].requirements
                 /\ services[other].maxAttempts = services[id].maxAttempts

\* A publication case and a substituted case were returned.
InitiatedCaseWitness ==
  /\ services[1] # Null /\ services[2] # Null
  /\ services[1].serviceType = "publication"
  /\ services[1].maxAttempts = 1
  /\ services[2].serviceType = "substituted"
  /\ services[2].maxAttempts = 2
  /\ ServeCalled /\ lastOp.outcome.value = services[2]

\* C18: once recordAffidavit has filed an affidavit for a service case,
\* every later recordAttempt or recordAffidavit for the same serviceId is
\* rejected, so that a service case has at most one affidavit.
AffidavitFinal ==
  /\ \A id \in ServiceIds :
       services[id] # Null => affidavitsFiled[id] <= 1
  /\ (/\ lastOp.op = "recordAttempt"
      /\ services[lastOp.options.serviceId] # Null
      /\ affidavitsFiled[lastOp.options.serviceId] >= 1)
     => lastOp.outcome.threw

\* C19: for every service case, the number of attempts recordAttempt has
\* recorded never exceeds maxAttempts of its service type.
AttemptsBounded ==
  \A id \in ServiceIds :
    services[id] # Null => attemptsRecorded[id] <= services[id].maxAttempts

\* C20: verify(receiptId) with no receipt data and an identifier that is
\* not in the store fails with a not-found error: the call does not return
\* a verification result.
VerifyNotFound ==
  lastVerify.notFound => lastVerify.threw

\* C21: verify reports a signature that does not verify as verified = false
\* without the verification-system-error flag, and a processing exception
\* (malformed base64, corrupt key) as a result with the flag set; the flag
\* is set for processing exceptions only, and neither outcome is thrown.
VerifyOutcomes ==
  lastVerify.called =>
    /\ ~lastVerify.threw
    /\ lastVerify.verificationError <=> lastVerify.malformed
    /\ lastVerify.verificationError => ~lastVerify.verified
    /\ (lastVerify.tampered /\ ~lastVerify.malformed /\ ~lastVerify.verified)
       => ~lastVerify.verificationError

\* verify was handed a copy whose key or signature cannot be decoded, and
\* flagged it.
VerifyOutcomesWitness ==
  /\ lastVerify.called /\ lastVerify.malformed
  /\ lastVerify.verificationError /\ ~lastVerify.verified
  /\ lastVerify.error = "Verification system error"

\* C22: create eventually returns a receipt even when the beacon never
\* answers: the anchor fetch is bounded by a timeout, after which the
\* receipt is issued unanchored.
CreateReturns ==
  \A c \in Calls : (calls[c].pc # "idle") ~> (calls[c].pc = "done")

\* C23: within one process, a receipt created by a POST
\* /dlvr/v1/receipt/<deliveryId> request is visible to a later GET
\* /verify/receipt/<receiptId> request: the lookup finds it and the
\* response reports verified = true.
ReceiptVisible ==
  (lastResponse # Null /\ lastResponse.created) =>
    (lastResponse.status = 200 /\ lastResponse.verified)

\* A request to a guarded route came without the configured service token.
Unauthorized ==
  lastResponse # Null /\ lastResponse.protected /\ ~lastResponse.tokenOk

\* C24 as stated: every request to a route other than health, service
\* status, CORS preflight, /verify/* and /track/* that does not carry the
\* configured service token is answered 401, and no orchestrator operation
\* runs for it.
AuthEnforced ==
  Unauthorized => (lastResponse.status = 401 /\ lastResponse.op = "")

\* C24, amended: such a request is answered 401, or 503 when the worker has
\* no INTERNAL_API_KEY, or 500 when that key is not a valid API key; in
\* every case no orchestrator operation runs for it.
AuthEnforcedOrMisconfigured ==
  Unauthorized =>
    /\ lastResponse.op = ""
    /\ lastResponse.status =
         IF ~Truthy(env.INTERNAL_API_KEY) THEN 503
         ELSE IF validateApiKey(env.INTERNAL_API_KEY).threw THEN 500
         ELSE 401

\* A worker with a valid API key and a service token turned a request away.
AuthEnforcedOrMisconfiguredWitness ==
  /\ Unauthorized
  /\ lastResponse.status = 401
  /\ Truthy(env.CHITTY_AUTH_SERVICE_TOKEN)
  /\ ~validateApiKey(env.INTERNAL_API_KEY).threw

\* C25: recordAttempt appends the attempt to the attempt log of the service
\* case and leaves the case's status and status history unchanged.
AttemptLogged ==
  (/\ lastOp.op = "recordAttempt"
   /\ ~lastOp.outcome.threw
   /\ services[lastOp.options.serviceId] # Null)
  => LET case == services[lastOp.options.serviceId] IN
     /\ Len(case.attempts) = attemptsRecorded[lastOp.options.serviceId]
     /\ case.attempts[Len(case.attempts)] = lastOp.outcome.value
     /\ case.status = "INITIATED"
     /\ case.statusHistory =
          << [status |-> "INITIATED", actor |-> "system"] >>

\* C26: a receipt in the store is never modified or removed after create
\* stores it: no step of verify, getById or a later create takes it out or
\* changes it, and verify by its identifier gives the same verified value
\* after the step as before.
ReceiptsImmutable ==
  [][\A e \in Engines : \A r \in receipts[e] :
       /\ r \in receipts'[e]
       /\ getById(receipts'[e], r.receiptId) = r
       /\ verify(receipts'[e], keyPair'[e], r.receiptId, Null).verified
            = verify(receipts[e], keyPair[e], r.receiptId, Null).verified]_vars

\* Two receipts are in the store and the one stored first was verified by
\* its identifier after the second was stored.
ReceiptsImmutableWitness ==
  /\ Cardinality(receipts[1]) = 2
  /\ \A c \in Calls : Done(c)
  /\ lastVerify.called /\ lastVerify.ofCreate /\ ~lastVerify.supplied
  /\ lastVerify.verified

\* The identifiers send has returned so far.
SentIds == 1..(nextDeliveryId - 1)

\* C27: confirm, opened and receipt succeed for any delivery identifier in
\* any order, including an identifier send never returned and a receipt
\* asked for before any send: confirm and opened given an object (or
\* nothing) return their event for that identifier, and no receipt call
\* fails.
AnyOrder ==
  /\ (lastOp.op \in {"confirm", "opened"} /\ lastOp.options.data # JsNull)
     => /\ ~lastOp.outcome.threw
        /\ lastOp.outcome.value.deliveryId = lastOp.options.deliveryId
        /\ lastOp.outcome.value.status =
             IF lastOp.op = "confirm" THEN "DELIVERED" ELSE "OPENED"
  /\ \A c \in Calls : calls[c].pc # "failed"

\* Before any send, a delivery was confirmed and a receipt for it was
\* issued.
AnyOrderWitness ==
  /\ nextDeliveryId = 1
  /\ lastOp.op = "confirm" /\ lastOp.options.deliveryId \notin SentIds
  /\ ~lastOp.outcome.threw
  /\ \E c \in Calls : Done(c)

\* C28: for every result of bulkSend, totalRecipients is the number of
\* recipients given, deliveries holds exactly one entry per recipient in
\* the order given, and sent + failed = totalRecipients.
BulkCounts ==
  (BulkCalled /\ ~lastOp.outcome.threw) =>
    LET items == lastOp.options.recipients.items
        result == lastOp.outcome.value
    IN
    /\ result.totalRecipients = Len(items)
    /\ Len(result.deliveries) = Len(items)
    /\ \A i \in 1..Len(items) :
         /\ result.deliveries[i].to = items[i].to
         /\ result.deliveries[i].status \in {"SENT", "FAILED"}
    /\ result.sent + result.failed = result.totalRecipients

\* A batch of three came back with some sent and some failed.
BulkCountsWitness ==
  /\ BulkCalled /\ ~lastOp.outcome.threw
  /\ lastOp.outcome.value.totalRecipients = 3
  /\ lastOp.outcome.value.sent = 2
  /\ lastOp.outcome.value.failed = 1
  /\ lastOp.outcome.value.deliveries[2].status = "FAILED"

InRange(score) == score \in 0..100

\* C29: every score the system produces lies in 0..100 for all inputs,
\* unknown methods, statuses and service types included: the delivery
\* score, the three affidavit scores, the three scores of a receipt and the
\* triple of a physical receipt.
ScoresInRange ==
  /\ ScoreCalled => InRange(lastOp.outcome.value.score)
  /\ (ServiceCalled /\ ~lastOp.outcome.threw) =>
       /\ InRange(lastOp.outcome.value.proof.score)
       /\ InRange(lastOp.outcome.value.proof.technical)
       /\ InRange(lastOp.outcome.value.proof.arguable)
  /\ lastOp.op = "createPhysicalReceipt" =>
       /\ InRange(lastOp.outcome.value.legal.score)
       /\ InRange(lastOp.outcome.value.legal.technical)
       /\ InRange(lastOp.outcome.value.legal.arguable)
  /\ \A e \in Engines : \A r \in receipts[e] :
       /\ InRange(r.legal.score)
       /\ InRange(r.legal.technical)
       /\ InRange(r.legal.arguable)

\* The configured key of object e is one validateApiKey rejects.
KeyRejected(e) ==
  constructed[e] /\ Truthy(apiKey[e]) /\ validateApiKey(apiKey[e]).threw

\* C30: when initialize fails because the configured key is not a string
\* of at least 16 characters, initialized stays false, and a later
\* initialize call validates the key again (and fails again) instead of
\* reporting the orchestrator ready.
InitializeFailureKept ==
  \A e \in Engines :
    KeyRejected(e) =>
      /\ ~initialized[e]
      /\ (lastOp.op = "initialize" /\ lastOp.object = e) =>
           /\ lastOp.outcome.threw
           /\ lastOp.outcome.error = "Invalid API key format"
           /\ ~lastOp.options.initialized
      /\ LET later == initialize(initialized[e], apiKey[e])
         IN later.validated /\ later.threw /\ ~later.initialized

\* An initialize call has failed on a rejected key, after a send.
InitializeFailureKeptWitness ==
  /\ lastOp.op = "initialize"
  /\ lastOp.outcome.threw
  /\ KeyRejected(lastOp.object)
  /\ ~initialized[lastOp.object]
  /\ nextDeliveryId > 1

====
